---------------------------- MODULE Spec2Model ----------------------------
(***************************************************************************)
(* A model of the pragmatic segmenter: the list-item replacer              *)
(* (src/src/list_item_replacer.rs), the abbreviation replacer              *)
(* (src/src/abbreviation_replacer.rs), the rule primitive                  *)
(* (src/src/rule.rs, src/src/util.rs) and the segment pipeline that        *)
(* orchestrates them.                                                      *)
(*                                                                         *)
(* A text is a sequence of characters; a character is a one-character      *)
(* string for ASCII and the string "U+XXXX" for any other code point.      *)
(* A regular expression is a syntax tree (a tuple whose first element      *)
(* names the node) interpreted by the backtracking matcher M below with    *)
(* the Ruby syntax of Oniguruma: "." is any character but a line feed,     *)
(* "^" and "$" match at every line feed, alternation is leftmost-first     *)
(* and repetition is greedy unless marked lazy.                            *)
(***************************************************************************)
EXTENDS Integers, Sequences, FiniteSets, TLC

VARIABLES
    tables,     \* the tables of the shared Segmenter
    profile,    \* the build profile of the crate: "debug" or "release"
    given,      \* given[c]: the text segment was called with, for every call c
    stage,      \* stage[c]: the number of the last stage call c has finished
    status,     \* status[c]: "running", "ready", "exhausted" or "panic"
    doc,        \* doc[s]: the document being rewritten, by storage slot
    frags,      \* frags[c]: the fragments, and the sentences made of them
    pending,    \* pending[c]: the sentences the iterator has still to yield
    out,        \* out[c]: the sentences the iterator has yielded
    unit        \* the one call of a single operation, when that is what runs

vars == <<tables, profile, given, stage, status, doc, frags, pending, out, unit>>

----------------------------------------------------------------------------
(* Characters *)

LowerSeq == <<"a","b","c","d","e","f","g","h","i","j","k","l","m",
              "n","o","p","q","r","s","t","u","v","w","x","y","z">>
UpperSeq == <<"A","B","C","D","E","F","G","H","I","J","K","L","M",
              "N","O","P","Q","R","S","T","U","V","W","X","Y","Z">>
Lower == {LowerSeq[i] : i \in 1..Len(LowerSeq)}
Upper == {UpperSeq[i] : i \in 1..Len(UpperSeq)}
Digit == {"0","1","2","3","4","5","6","7","8","9"}
Letter == Lower \cup Upper

\* Code points outside ASCII that the rules or the vocabulary name.
MaskedPeriod   == "U+222F"   \* masked period
MaskedIdDot    == "U+222E"   \* masked period inside an e-mail or identifier
ListPeriodMark == "U+2668"   \* numeric-list period marker
ListParenMark  == "U+261D"   \* numeric-list paren marker
HyphenBullet   == "U+2043"   \* the bullet of numbered_list_regex_1/2
InnerExcl      == "U+14F4"   \* inner character of the mask of "!"
InnerQuest     == "U+14F7"   \* inner character of the mask of "?"
InnerIdeoStop  == "U+14F0"   \* inner character of the mask of U+3002
InnerFullStop  == "U+14F1"   \* inner character of the mask of U+FF0E
InnerFullExcl  == "U+14F3"   \* inner character of the mask of U+FF01
InnerFullQuest == "U+14F8"   \* inner character of the mask of U+FF1F
InnerLParen    == "U+2702"   \* inner character of the mask of "("
InnerRParen    == "U+232C"   \* inner character of the mask of ")"
InnerApos      == "U+238B"   \* inner character of the mask of "'"
MaskQuestExcl  == "U+2609"   \* masked "?!"
MaskExclQuest  == "U+2608"   \* masked "!?"
MaskQuestQuest == "U+2607"   \* masked "??"
MaskExclExcl   == "U+2604"   \* masked "!!"
EllipsisA      == "U+01AA"   \* three of them mask "..."
EllipsisB      == "U+260F"   \* two of them mask ".." of "..."
EllipsisC      == "U+265F"   \* seven of them mask " . . . "
EllipsisD      == "U+265D"   \* seven of them mask ". . . ."
FragmentGuard  == "U+0238"   \* end-of-fragment guard
MaskedNewline  == "U+0239"   \* masked backslash-n
MaskedComma    == "U+266C"
MaskedColon    == "U+266D"
IdeoStop       == "U+3002"
FullStop       == "U+FF0E"
FullExcl       == "U+FF01"
FullQuest      == "U+FF1F"
FullLParen     == "U+FF08"
FullRParen     == "U+FF09"
CornerL        == "U+300C"
CornerR        == "U+300D"
SlantSingleL   == "U+2018"
SlantSingleR   == "U+2019"
SlantDoubleL   == "U+201C"
SlantDoubleR   == "U+201D"
ArrowL         == "U+00AB"
ArrowR         == "U+00BB"
Click          == "U+01C3"   \* the click letter of the exclamation words
ModApos        == "U+02BC"
UTilde         == "U+0169"
UCirc          == "U+00FB"
Degree         == "U+00B0"
ArabicComma    == "U+060C"
Hangul         == "U+AC00"   \* an uncased letter of three bytes

\* \s of the regular expressions (the ASCII white space).
WS == {" ", "\t", "\n", "\r", "\f"}
\* \w of the regular expressions, over the characters of the model.
WordChar == Letter \cup Digit \cup {"_", UTilde, UCirc, Click, ModApos, Hangul}

Chars(str) == [i \in 1..Len(str) |-> SubSeq(str, i, i)]

IndexIn(seq, c) == CHOOSE i \in 1..Len(seq) : seq[i] = c
ToLowerChar(c) == IF c \in Upper THEN LowerSeq[IndexIn(UpperSeq, c)] ELSE c
ToUpperChar(c) == IF c \in Lower THEN UpperSeq[IndexIn(LowerSeq, c)] ELSE c
ToLower(s) == [i \in 1..Len(s) |-> ToLowerChar(s[i])]
BothCases(c) == {ToLowerChar(c), ToUpperChar(c)}

RangeOf(seq) == {seq[i] : i \in 1..Len(seq)}

RECURSIVE FlattenFrom(_, _, _)
FlattenFrom(ss, a, b) ==
    IF a > b THEN <<>>
    ELSE IF a = b THEN ss[a]
    ELSE FlattenFrom(ss, a, (a + b) \div 2) \o FlattenFrom(ss, ((a + b) \div 2) + 1, b)
Flatten(ss) == FlattenFrom(ss, 1, Len(ss))

\* s[a+1..b] for cursors 0 <= a <= b <= Len(s).
Slice(s, a, b) == SubSeq(s, a + 1, b)

\* The element of a set of one element: {e : v \in {x}} is e with v the value
\* of x, worked out once and before e.
The(set) == CHOOSE e \in set : TRUE

\* Whether sub occurs in s (str::contains).
Contains(s, sub) ==
    \E a \in 0..(Len(s) - Len(sub)) : Slice(s, a, a + Len(sub)) = sub

----------------------------------------------------------------------------
(* Regular expressions: syntax *)

Inf == 0 - 1                        \* no upper limit of a repetition
Ch(S) == <<"chr", S>>               \* one character of S
NotCh(S) == <<"not", S>>            \* one character not in S
Dot == <<"not", {"\n"}>>            \* .
Cat(rs) == <<"seq", rs>>
Alt(rs) == <<"alt", rs>>
Rep(r, lo, hi) == <<"rep", r, lo, hi>>      \* greedy r{lo,hi}
Lazy(r, lo, hi) == <<"lazy", r, lo, hi>>    \* lazy r{lo,hi}?
Star(r) == Rep(r, 0, Inf)
Plus(r) == Rep(r, 1, Inf)
Opt(r) == Rep(r, 0, 1)
La(r) == <<"la", r>>                \* (?=r)
Nla(r) == <<"nla", r>>              \* (?!r)
Lb(r) == <<"lb", r>>                \* (?<=r)
Bol == <<"bol">>                    \* ^
Eol == <<"eol">>                    \* $
BosA == <<"bos">>                   \* \A
EosZ == <<"eos">>                   \* \Z
Wb == <<"wb">>                      \* \b
C(c) == Ch({c})
Str(cs) == Cat([i \in 1..Len(cs) |-> Ch({cs[i]})])
StrI(cs) == Cat([i \in 1..Len(cs) |-> Ch(BothCases(cs[i]))])
S(str) == Str(Chars(str))
ReWS == Ch(WS)                      \* \s
ReNotWS == NotCh(WS)                \* \S
ReDigit == Ch(Digit)                \* \d
ReLower == Ch(Lower)                \* [a-z]
ReUpper == Ch(Upper)                \* [A-Z]
ReLetterI == Ch(Letter)             \* [a-z] under the ignore-case option

----------------------------------------------------------------------------
(* Regular expressions: the matcher *)

\* The most characters a match of r can span (for the look-behind).
RECURSIVE MaxW(_)
RECURSIVE MaxWSum(_, _)
RECURSIVE MaxWMax(_, _)
MaxW(r) ==
    CASE r[1] \in {"chr", "not"} -> 1
      [] r[1] = "seq" -> MaxWSum(r[2], 1)
      [] r[1] = "alt" -> MaxWMax(r[2], 1)
      [] r[1] \in {"rep", "lazy"} -> IF r[4] = Inf THEN 1000 ELSE r[4] * MaxW(r[2])
      [] OTHER -> 0
MaxWSum(rs, k) == IF k > Len(rs) THEN 0 ELSE MaxW(rs[k]) + MaxWSum(rs, k + 1)
MaxWMax(rs, k) ==
    IF k > Len(rs) THEN 0
    ELSE LET a == MaxW(rs[k])
             b == MaxWMax(rs, k + 1)
         IN IF a > b THEN a ELSE b

\* M(r, s, i): the cursors (0..Len(s)) at which a match of r that starts at
\* cursor i of s can end, in the order in which backtracking tries them.
RECURSIVE M(_, _, _)
RECURSIVE MSeq(_, _, _, _)
RECURSIVE MChain(_, _, _, _, _)
RECURSIVE MAlt(_, _, _, _)
RECURSIVE MRep(_, _, _, _, _, _, _)
RECURSIVE MRepChain(_, _, _, _, _, _, _, _, _)

IsWordAt(s, i) == i >= 1 /\ i <= Len(s) /\ s[i] \in WordChar

M(r, s, i) ==
    CASE r[1] = "chr" -> IF i < Len(s) /\ s[i + 1] \in r[2] THEN <<i + 1>> ELSE <<>>
      [] r[1] = "not" -> IF i < Len(s) /\ s[i + 1] \notin r[2] THEN <<i + 1>> ELSE <<>>
      [] r[1] = "seq" -> MSeq(r[2], 1, s, i)
      [] r[1] = "alt" -> MAlt(r[2], 1, s, i)
      [] r[1] = "rep" -> MRep(r[2], r[3], r[4], TRUE, s, i, 0)
      [] r[1] = "lazy" -> MRep(r[2], r[3], r[4], FALSE, s, i, 0)
      [] r[1] = "la" -> IF M(r[2], s, i) # <<>> THEN <<i>> ELSE <<>>
      [] r[1] = "nla" -> IF M(r[2], s, i) = <<>> THEN <<i>> ELSE <<>>
      [] r[1] = "lb" ->
           LET w == MaxW(r[2])
               lo == IF i - w < 0 THEN 0 ELSE i - w
           IN IF \E k \in lo..i : i \in RangeOf(M(r[2], s, k)) THEN <<i>> ELSE <<>>
      [] r[1] = "bol" -> IF i = 0 \/ s[i] = "\n" THEN <<i>> ELSE <<>>
      [] r[1] = "eol" -> IF i = Len(s) \/ s[i + 1] = "\n" THEN <<i>> ELSE <<>>
      [] r[1] = "bos" -> IF i = 0 THEN <<i>> ELSE <<>>
      [] r[1] = "eos" ->
           IF i = Len(s) \/ (i = Len(s) - 1 /\ s[i + 1] = "\n") THEN <<i>> ELSE <<>>
      [] r[1] = "wb" -> IF IsWordAt(s, i) # IsWordAt(s, i + 1) THEN <<i>> ELSE <<>>

MSeq(rs, k, s, i) ==
    IF k > Len(rs) THEN <<i>> ELSE MChain(rs, k + 1, s, M(rs[k], s, i), 1)
MChain(rs, k, s, ends, n) ==
    Flatten([j \in 1..Len(ends) |-> MSeq(rs, k, s, ends[j])])

MAlt(rs, k, s, i) == Flatten([j \in 1..Len(rs) |-> M(rs[j], s, i)])

\* The repetition of one character class: the run of matching characters
\* from cursor i on gives the ends, the longest first when greedy.
RunLen(r, s, i) ==
    LET stop == {k \in (i + 1)..Len(s) : (s[k] \in r[2]) # (r[1] = "chr")}
    IN IF stop = {} THEN Len(s) - i
       ELSE (CHOOSE k \in stop : \A j \in stop : k <= j) - 1 - i
RunEnds(r, lo, hi, greedy, s, i) ==
    LET n == RunLen(r, s, i)
        top == IF hi = Inf \/ n < hi THEN n ELSE hi
    IN IF top < lo THEN <<>>
       ELSE [k \in 1..(top - lo + 1) |->
                IF greedy THEN i + top - (k - 1) ELSE i + lo + (k - 1)]

\* c iterations of r have been matched and the cursor is i.
MRep(r, lo, hi, greedy, s, i, c) ==
    IF c = 0 /\ r[1] \in {"chr", "not"} THEN RunEnds(r, lo, hi, greedy, s, i)
    ELSE LET here == IF c >= lo THEN <<i>> ELSE <<>>
             more == IF hi # Inf /\ c >= hi THEN <<>>
                     ELSE MRepChain(r, lo, hi, greedy, s, M(r, s, i), 1, c + 1, i)
         IN IF greedy THEN more \o here ELSE here \o more
MRepChain(r, lo, hi, greedy, s, ends, n, c, from) ==
    Flatten([j \in 1..Len(ends) |->
                IF ends[j] = from THEN <<>> ELSE MRep(r, lo, hi, greedy, s, ends[j], c)])

\* The least number of a set of numbers that is not empty.
Min(nums) == CHOOSE k \in nums : \A j \in nums : k <= j

\* The cursors of s at which a match of r starts.
Starts(r, s) == {q \in 0..Len(s) : M(r, s, q) # <<>>}

\* The leftmost match of r in s that starts at cursor p or later: <<start,
\* end>>, or <<>> when there is none (Regex::find, one step of find_iter).
FindAmong(starts, r, s, p) ==
    IF \A q \in starts : q < p THEN <<>>
    ELSE The({<<q, M(r, s, q)[1]>> : q \in {Min({x \in starts : x >= p})}})
FindFrom(r, s, p) == FindAmong(Starts(r, s), r, s, p)

Matches(r, s) == \E q \in 0..Len(s) : M(r, s, q) # <<>>

\* Regex::find_iter: the matches, leftmost first and not overlapping.
RECURSIVE FindAllFrom(_, _, _, _)
FindAllFrom(starts, r, s, p) ==
    The({IF m = <<>> THEN <<>>
         ELSE <<m>> \o FindAllFrom(starts, r, s,
                                   IF m[2] > m[1] THEN m[2] ELSE m[2] + 1) :
         m \in {FindAmong(starts, r, s, p)}})
FindAll(r, s) == FindAllFrom(Starts(r, s), r, s, 0)

\* s with the k-th match of ms replaced by reps[k] (the text that
\* Regex::replace_all assembles from the matches and their replacements).
RECURSIVE ReplaceFrom(_, _, _, _, _)
ReplaceFrom(ms, reps, k, s, p) ==
    IF k > Len(ms) THEN Slice(s, p, Len(s))
    ELSE Slice(s, p, ms[k][1]) \o reps[k] \o ReplaceFrom(ms, reps, k + 1, s, ms[k][2])
ReplaceMatches(s, ms, reps) == ReplaceFrom(ms, reps, 1, s, 0)

\* Regex::replace_all with a replacement text without group references.
ReplaceLit(r, s, rep) ==
    The({ReplaceMatches(s, ms, [k \in 1..Len(ms) |-> rep]) : ms \in {FindAll(r, s)}})

\* str::replace: every occurrence of the text pat becomes rep.
ReplaceStr(s, pat, rep) == ReplaceLit(Str(pat), s, rep)

----------------------------------------------------------------------------
(* The rule primitive (src/src/rule.rs) *)

\* Rule::new: a compiled pattern and a replacement text.
Rule(regex, replace) == [regex |-> regex, replace |-> replace]

\* Rule::replace_all hands the replacement to Regex::replace_all as a text:
\* every match becomes that text as it is written.
RuleReplaceAll(rule, text) == ReplaceLit(rule.regex, text, rule.replace)

\* The rules of a list applied one after the other, from the k-th on.
RECURSIVE ApplyRules(_, _, _)
ApplyRules(rules, k, text) ==
    IF k > Len(rules) THEN text
    ELSE The({ApplyRules(rules, k + 1, next) : next \in {RuleReplaceAll(rules[k], text)}})

----------------------------------------------------------------------------
(* Integers and their decimal text *)

DigitSeq == <<"0","1","2","3","4","5","6","7","8","9">>
DigitValue(c) == IndexIn(DigitSeq, c) - 1

\* str::parse::<i32> of a text of decimal digits.
RECURSIVE ParseInt(_)
ParseInt(ds) ==
    IF ds = <<>> THEN 0
    ELSE ParseInt(SubSeq(ds, 1, Len(ds) - 1)) * 10 + DigitValue(ds[Len(ds)])

\* i32::to_string of a number that is not negative.
RECURSIVE IntToString(_)
IntToString(n) ==
    IF n < 10 THEN <<DigitSeq[n + 1]>>
    ELSE IntToString(n \div 10) \o <<DigitSeq[(n % 10) + 1]>>

\* str::trim_start, str::trim_end, str::trim.
RECURSIVE TrimStart(_)
TrimStart(s) == IF s # <<>> /\ Head(s) \in WS THEN TrimStart(Tail(s)) ELSE s
RECURSIVE TrimEnd(_)
TrimEnd(s) ==
    IF s # <<>> /\ s[Len(s)] \in WS THEN TrimEnd(SubSeq(s, 1, Len(s) - 1)) ELSE s
Trim(s) == TrimEnd(TrimStart(s))

\* str::trim_matches(set): the characters of set are cut from both ends.
RECURSIVE TrimMatches(_, _)
TrimMatches(s, set) ==
    IF s # <<>> /\ Head(s) \in set THEN TrimMatches(Tail(s), set)
    ELSE IF s # <<>> /\ s[Len(s)] \in set
         THEN TrimMatches(SubSeq(s, 1, Len(s) - 1), set)
         ELSE s

\* The length of a text in bytes of UTF-8 (str::len).
ByteLenChar(c) ==
    IF Len(c) = 1 THEN 1
    ELSE IF c \in {ArrowL, ArrowR, Degree, UTilde, UCirc, Click, ModApos,
                   EllipsisA, FragmentGuard, MaskedNewline, ArabicComma}
         THEN 2 ELSE 3
RECURSIVE ByteLen(_)
ByteLen(s) == IF s = <<>> THEN 0 ELSE ByteLenChar(Head(s)) + ByteLen(Tail(s))

----------------------------------------------------------------------------
(* The list-item replacer (src/src/list_item_replacer.rs) *)

\* map_from_list: each text of the list is mapped to its index; a text that
\* occurs twice keeps the index of its last occurrence (HashMap collect).
map_from_list(list) ==
    [s \in RangeOf(list) |->
        (CHOOSE i \in 1..Len(list) :
            list[i] = s /\ \A j \in 1..Len(list) : list[j] = s => j <= i) - 1]

RomanList ==
    <<Chars("i"), Chars("ii"), Chars("iii"), Chars("iv"), Chars("v"), Chars("vi"),
      Chars("vii"), Chars("viii"), Chars("ix"), Chars("x"), Chars("xi"),
      Chars("xii"), Chars("xiii"), Chars("xiv"), Chars("x"), Chars("xi"),
      Chars("xii"), Chars("xiii"), Chars("xv"), Chars("xvi"), Chars("xvii"),
      Chars("xviii"), Chars("xix"), Chars("xx")>>
LatinList == [i \in 1..26 |-> <<LowerSeq[i]>>]

roman_numerals == map_from_list(RomanList)
latin_numerals == map_from_list(LatinList)

ReDigit12 == Rep(ReDigit, 1, 2)               \* \d{1,2}
ReBullet == C(HyphenBullet)

\* The detector of period markers if it took a marker of several letters.
alphabetical_list_with_long_periods ==
    Alt(<<Cat(<<Lb(Bol), Plus(ReLetterI), La(C("."))>>),
          Cat(<<Lb(BosA), Plus(ReLetterI), La(C("."))>>),
          Cat(<<Lb(ReWS), Plus(ReLetterI), La(C("."))>>)>>)

alphabetical_list_with_periods ==
    Alt(<<Cat(<<Lb(Bol), ReLetterI, La(C("."))>>),
          Cat(<<Lb(BosA), ReLetterI, La(C("."))>>),
          Cat(<<Lb(ReWS), ReLetterI, La(C("."))>>)>>)

alphabetical_list_with_parens ==
    Alt(<<Cat(<<Lb(C("(")), Plus(ReLetterI), La(C(")"))>>),
          Cat(<<Lb(Bol), Plus(ReLetterI), La(C(")"))>>),
          Cat(<<Lb(BosA), Plus(ReLetterI), La(C(")"))>>),
          Cat(<<Lb(ReWS), Plus(ReLetterI), La(C(")"))>>)>>)

alphabetical_list_letters_and_periods_regex ==
    Alt(<<Cat(<<Lb(Bol), ReLetterI, C(".")>>),
          Cat(<<Lb(BosA), ReLetterI, C(".")>>),
          Cat(<<Lb(ReWS), ReLetterI, C(".")>>)>>)

extract_alphabetical_list_letters_regex ==
    Alt(<<Cat(<<C("("), Plus(ReLetterI), La(C(")"))>>),
          Cat(<<Lb(Bol), Plus(ReLetterI), La(C(")"))>>),
          Cat(<<Lb(BosA), Plus(ReLetterI), La(C(")"))>>),
          Cat(<<Lb(ReWS), Plus(ReLetterI), La(C(")"))>>)>>)

LaDotWS == La(Cat(<<C("."), ReWS>>))          \* (?=\.\s)
LaDotParen == La(Cat(<<C("."), C(")")>>))     \* (?=\.\))

numbered_list_regex_1 ==
    Alt(<<Cat(<<ReWS, ReDigit12, LaDotWS>>),
          Cat(<<Bol, ReDigit12, LaDotWS>>),
          Cat(<<ReWS, ReDigit12, LaDotParen>>),
          Cat(<<Bol, ReDigit12, LaDotParen>>),
          Cat(<<Lb(Cat(<<ReWS, C("-")>>)), ReDigit12, LaDotWS>>),
          Cat(<<Lb(Cat(<<Bol, C("-")>>)), ReDigit12, LaDotWS>>),
          Cat(<<Lb(Cat(<<ReWS, ReBullet>>)), ReDigit12, LaDotWS>>),
          Cat(<<Lb(Cat(<<Bol, ReBullet>>)), ReDigit12, LaDotWS>>),
          Cat(<<Lb(Cat(<<C("s"), C("-")>>)), ReDigit12, LaDotParen>>),
          Cat(<<Lb(Cat(<<Bol, C("-")>>)), ReDigit12, LaDotParen>>),
          Cat(<<Lb(Cat(<<ReWS, ReBullet>>)), ReDigit12, LaDotParen>>),
          Cat(<<Lb(Cat(<<Bol, ReBullet>>)), ReDigit12, LaDotParen>>)>>)

numbered_list_regex_2 ==
    Alt(<<Cat(<<Lb(ReWS), ReDigit12, C("."), La(ReWS)>>),
          Cat(<<Bol, ReDigit12, C("."), La(ReWS)>>),
          Cat(<<Lb(ReWS), ReDigit12, C("."), La(C(")"))>>),
          Cat(<<Bol, ReDigit12, C("."), La(C(")"))>>),
          Cat(<<Lb(Cat(<<ReWS, C("-")>>)), ReDigit12, C("."), La(ReWS)>>),
          Cat(<<Lb(Cat(<<Bol, C("-")>>)), ReDigit12, C("."), La(ReWS)>>),
          Cat(<<Lb(Cat(<<ReWS, ReBullet>>)), ReDigit12, C("."), La(ReWS)>>),
          Cat(<<Lb(Cat(<<Bol, ReBullet>>)), ReDigit12, C("."), La(ReWS)>>),
          Cat(<<Lb(Cat(<<ReWS, C("-")>>)), ReDigit12, C("."), La(C(")"))>>),
          Cat(<<Lb(Cat(<<Bol, C("-")>>)), ReDigit12, C("."), La(C(")"))>>),
          Cat(<<Lb(Cat(<<ReWS, ReBullet>>)), ReDigit12, C("."), La(C(")"))>>),
          Cat(<<Lb(Cat(<<Bol, ReBullet>>)), ReDigit12, C("."), La(C(")"))>>)>>)

numbered_list_parens_regex == Cat(<<ReDigit12, La(Cat(<<C(")"), ReWS>>))>>)

find_numbered_list_1 ==
    Alt(<<Cat(<<C(ListPeriodMark), Plus(Dot), C("\n"), Plus(Dot), C(ListPeriodMark)>>),
          Cat(<<C(ListPeriodMark), Plus(Dot), C("\r"), Plus(Dot), C(ListPeriodMark)>>)>>)

find_numbered_list_2 ==
    Cat(<<S("for"), ReWS, ReDigit12, C(ListPeriodMark), ReWS, ReLower>>)

space_between_list_items_first_rule ==
    Rule(Cat(<<Lb(Cat(<<ReNotWS, ReNotWS>>)), ReWS,
               La(Cat(<<ReNotWS, Star(ReWS), Plus(ReDigit), C(ListPeriodMark)>>))>>),
         <<"\r">>)

space_between_list_items_second_rule ==
    Rule(Cat(<<Lb(Cat(<<ReNotWS, ReNotWS>>)), ReWS,
               La(Cat(<<ReDigit12, C(ListPeriodMark)>>))>>),
         <<"\r">>)

find_numbered_list_parens ==
    Alt(<<Cat(<<C(ListParenMark), Plus(Dot), C("\n"), Plus(Dot), C(ListParenMark)>>),
          Cat(<<C(ListParenMark), Plus(Dot), C("\r"), Plus(Dot), C(ListParenMark)>>)>>)

space_between_list_items_third_rule ==
    Rule(Cat(<<Lb(Cat(<<ReNotWS, ReNotWS>>)), ReWS,
               La(Cat(<<ReDigit12, C(ListParenMark)>>))>>),
         <<"\r">>)

\* A rule that puts the period marker back where it finds it.
list_period_kept == Rule(C(ListPeriodMark), <<ListPeriodMark>>)
substitute_list_period_rule == Rule(C(ListPeriodMark), <<MaskedPeriod>>)

\* A rule that puts the list marker back where it finds it.
list_marker_kept == Rule(C(ListParenMark), <<ListParenMark>>)
list_marker_rule == Rule(C(ListParenMark), <<>>)

\* replace_alphabet_list without the line break before the marker.
mask_alphabet_list(text, what_to_replace) ==
    LET Repl(mat) ==
            IF SubSeq(mat, 1, Len(mat) - 1) = what_to_replace
            THEN what_to_replace \o <<MaskedPeriod>>
            ELSE mat
    IN The({ReplaceMatches(text, ms,
                           [k \in 1..Len(ms) |-> Repl(Slice(text, ms[k][1], ms[k][2]))]) :
            ms \in {FindAll(alphabetical_list_letters_and_periods_regex, text)}})

\* replace_alphabet_list: the closure applied to every match.
replace_alphabet_list(text, what_to_replace) ==
    LET Repl(mat) ==
            LET match_wo_period ==
                    IF mat[Len(mat)] = "." THEN SubSeq(mat, 1, Len(mat) - 1) ELSE mat
            IN IF match_wo_period = what_to_replace
               THEN <<"\r">> \o match_wo_period \o <<MaskedPeriod>>
               ELSE mat
    IN The({ReplaceMatches(text, ms,
                           [k \in 1..Len(ms) |-> Repl(Slice(text, ms[k][1], ms[k][2]))]) :
            ms \in {FindAll(alphabetical_list_letters_and_periods_regex, text)}})

\* replace_alphabet_list_parens if a marker that stands after a line break
\* were left as it is.
break_alphabet_list_parens(text, what_to_replace) ==
    LET Repl(mat, start) ==
            IF Head(mat) = "("
            THEN IF Tail(mat) = what_to_replace
                 THEN <<"\r", "&", InnerLParen, "&">> \o Tail(mat)
                 ELSE mat
            ELSE IF mat = what_to_replace /\ ~(start > 0 /\ text[start] = "\r")
                 THEN <<"\r">> \o mat ELSE mat
    IN The({ReplaceMatches(text, ms,
                           [k \in 1..Len(ms) |->
                               Repl(Slice(text, ms[k][1], ms[k][2]), ms[k][1])]) :
            ms \in {FindAll(extract_alphabetical_list_letters_regex, text)}})

\* replace_alphabet_list_parens: the closure applied to every match.
replace_alphabet_list_parens(text, what_to_replace) ==
    LET Repl(mat) ==
            IF Head(mat) = "("
            THEN IF Tail(mat) = what_to_replace
                 THEN <<"\r", "&", InnerLParen, "&">> \o Tail(mat)
                 ELSE mat
            ELSE IF mat = what_to_replace THEN <<"\r">> \o mat ELSE mat
    IN The({ReplaceMatches(text, ms,
                           [k \in 1..Len(ms) |-> Repl(Slice(text, ms[k][1], ms[k][2]))]) :
            ms \in {FindAll(extract_alphabetical_list_letters_regex, text)}})

Abs(n) == IF n < 0 THEN 0 - n ELSE n

\* The candidates as they are when the matched text is looked up downcased.
RECURSIVE DowncasedCandidates(_, _, _, _)
DowncasedCandidates(ms, k, text, alphabet) ==
    IF k > Len(ms) THEN <<>>
    ELSE LET tok == Slice(text, ms[k][1], ms[k][2])
         IN (IF ToLower(tok) \in DOMAIN alphabet
             THEN <<<<tok, alphabet[ToLower(tok)]>>>> ELSE <<>>)
            \o DowncasedCandidates(ms, k + 1, text, alphabet)

\* The candidates of iterate_alphabet_array: the matches of the detector whose
\* text is a key of the numeral table, each with its rank.
RECURSIVE AlphabetCandidates(_, _, _, _)
AlphabetCandidates(ms, k, text, alphabet) ==
    IF k > Len(ms) THEN <<>>
    ELSE LET tok == Slice(text, ms[k][1], ms[k][2])
         IN (IF tok \in DOMAIN alphabet THEN <<<<tok, alphabet[tok]>>>> ELSE <<>>)
            \o AlphabetCandidates(ms, k + 1, text, alphabet)

\* is_strange reduced to its first case: only a lone candidate is strange.
is_alone(list_array, ind) == Len(list_array) <= 1

\* is_strange with every difference of ranks taken absolute.
is_strange_unsigned(list_array, ind) ==
    LET len == Len(list_array)
        rank(j) == list_array[j + 1][2]
        near(j) == Abs(rank(j) - rank(ind)) = 1
    IN IF len <= 1 THEN TRUE
       ELSE IF ind = len - 1 THEN ~near(len - 2)
       ELSE IF ind = 0 THEN ~near(1) /\ ~near(len - 1)
            ELSE ~near(ind + 1) /\ ~near(ind - 1)

\* is_strange without its first case: a lone candidate is not strange.
is_strange_among_several(list_array, ind) ==
    LET len == Len(list_array)
        rank(j) == list_array[j + 1][2]
    IN IF len <= 1 THEN FALSE
       ELSE IF ind = len - 1 THEN Abs(rank(len - 2) - rank(len - 1)) # 1
       ELSE IF ind = 0
            THEN rank(1) - rank(0) # 1 /\ Abs(rank(len - 1) - rank(0)) # 1
            ELSE rank(ind + 1) - rank(ind) # 1 /\ Abs(rank(ind - 1) - rank(ind)) # 1

\* is_strange of iterate_alphabet_array for the index ind (from 0) of the
\* candidates list_array.
is_strange(list_array, ind) ==
    LET len == Len(list_array)
        rank(j) == list_array[j + 1][2]
    IN IF len <= 1 THEN TRUE
       ELSE IF ind = len - 1 THEN Abs(rank(len - 2) - rank(len - 1)) # 1
       ELSE IF ind = 0
            THEN rank(1) - rank(0) # 1 /\ Abs(rank(len - 1) - rank(0)) # 1
            ELSE rank(ind + 1) - rank(ind) # 1 /\ Abs(rank(ind - 1) - rank(ind)) # 1

\* The loop of iterate_alphabet_array from the index ind on.
RECURSIVE AlphabetLoop(_, _, _, _)
AlphabetLoop(list_array, ind, result, parens) ==
    IF ind >= Len(list_array) THEN result
    ELSE IF is_strange(list_array, ind)
         THEN AlphabetLoop(list_array, ind + 1, result, parens)
         ELSE The({AlphabetLoop(list_array, ind + 1, next, parens) :
                   next \in {IF parens
                             THEN replace_alphabet_list_parens(result,
                                                               list_array[ind + 1][1])
                             ELSE replace_alphabet_list(result, list_array[ind + 1][1])}})

iterate_alphabet_array(text, regex, parens, use_roman_numeral) ==
    LET alphabet == IF use_roman_numeral THEN roman_numerals ELSE latin_numerals
        list_array == AlphabetCandidates(FindAll(regex, text), 1, text, alphabet)
    IN AlphabetLoop(list_array, 0, text, parens)

\* The largest usize, the value 0 - 1 wraps to where overflow is not checked
\* (a stand-in: any index beyond every list the model builds).
UsizeMax == 2147483647

\* The two ways the crate is built: with overflow checks (debug) and without.
Builds == {"debug", "release"}

\* Vec::get as a list of no or one element.
Get(list_array, idx) ==
    IF idx >= 0 /\ idx < Len(list_array) THEN <<list_array[idx + 1]>> ELSE <<>>

\* i - 1 on usize.
UsizeDec(i) == IF i = 0 THEN UsizeMax ELSE i - 1

\* The first disjunct of the test of scan_lists; the later disjuncts are only
\* evaluated when it is false.
ScanFirst(list_array, i) == Get(list_array, i + 1) = <<list_array[i + 1] + 1>>

\* Whether the evaluation of the test at index i computes 0 - 1 on usize.
ScanUnderflows(list_array, i) == i = 0 /\ ~ScanFirst(list_array, i)

\* The test of scan_lists at index i where the subtraction wraps.
ScanKeep(list_array, i) ==
    LET each == list_array[i + 1]
    IN \/ ScanFirst(list_array, i)
       \/ Get(list_array, UsizeDec(i)) = <<each - 1>>
       \/ (each = 0 /\ Get(list_array, UsizeDec(i)) = <<9>>)
       \/ (each = 9 /\ Get(list_array, i + 1) = <<0>>)

\* The numbers scan_lists collects from the matches of regex1.
ScanNumbers(text, regex1) ==
    The({[k \in 1..Len(ms) |-> ParseInt(TrimStart(Slice(text, ms[k][1], ms[k][2])))] :
         ms \in {FindAll(regex1, text)}})

\* substitute_found_list_items if a match were compared with the entry as a
\* number, whatever its digits.
ScanSubstituteParsed(text, regex2, each, replacement, strip) ==
    LET Repl(m0) ==
            LET mat == IF strip THEN Trim(m0) ELSE m0
                chomped == IF ByteLen(mat) = 1 THEN mat
                           ELSE TrimMatches(mat, {".", "]", ")"})
            IN IF ParseInt(chomped) = each
               THEN IntToString(each) \o <<replacement>>
               ELSE mat
    IN The({ReplaceMatches(text, ms,
                           [k \in 1..Len(ms) |-> Repl(Slice(text, ms[k][1], ms[k][2]))]) :
            ms \in {FindAll(regex2, text)}})

\* substitute_found_list_items: the closure applied to every match of regex2.
ScanSubstitute(text, regex2, each, replacement, strip) ==
    LET Repl(m0) ==
            LET mat == IF strip THEN Trim(m0) ELSE m0
                chomped == IF ByteLen(mat) = 1 THEN mat
                           ELSE TrimMatches(mat, {".", "]", ")"})
            IN IF IntToString(each) = chomped
               THEN IntToString(each) \o <<replacement>>
               ELSE mat
    IN The({ReplaceMatches(text, ms,
                           [k \in 1..Len(ms) |-> Repl(Slice(text, ms[k][1], ms[k][2]))]) :
            ms \in {FindAll(regex2, text)}})

\* One iteration of the loop of scan_lists on the state st of a call.
ScanStep(st, regex2, replacement, strip, build) ==
    IF build = "debug" /\ ScanUnderflows(st.list_array, st.i)
    THEN [st EXCEPT !.status = "panic"]
    ELSE [st EXCEPT
            !.i = st.i + 1,
            !.result = IF ScanKeep(st.list_array, st.i)
                       THEN ScanSubstitute(st.result, regex2,
                                           st.list_array[st.i + 1], replacement, strip)
                       ELSE st.result,
            !.status = IF st.i + 1 >= Len(st.list_array) THEN "done" ELSE "loop"]

ScanStart(text, regex1) ==
    LET list_array == ScanNumbers(text, regex1)
    IN [list_array |-> list_array, i |-> 0, result |-> text,
        status |-> IF list_array = <<>> THEN "done" ELSE "loop"]

RECURSIVE ScanRun(_, _, _, _, _)
ScanRun(st, regex2, replacement, strip, build) ==
    IF st.status # "loop" THEN st
    ELSE The({ScanRun(next, regex2, replacement, strip, build) :
              next \in {ScanStep(st, regex2, replacement, strip, build)}})

\* scan_lists: the state the call ends in, "done" with its result or "panic".
scan_lists(text, regex1, regex2, replacement, strip, build) ==
    ScanRun(ScanStart(text, regex1), regex2, replacement, strip, build)

\* The two rules of the line breaks before period markers, whatever the text.
space_between_list_items(text) ==
    RuleReplaceAll(space_between_list_items_second_rule,
                   RuleReplaceAll(space_between_list_items_first_rule, text))

add_line_breaks_for_numbered_list_with_periods(text) ==
    IF /\ Contains(text, <<ListPeriodMark>>)
       /\ ~Matches(find_numbered_list_1, text)
       /\ ~Matches(find_numbered_list_2, text)
    THEN RuleReplaceAll(space_between_list_items_second_rule,
                        RuleReplaceAll(space_between_list_items_first_rule, text))
    ELSE text

add_line_breaks_for_numbered_list_with_parens(text) ==
    IF Contains(text, <<ListParenMark>>) /\ ~Matches(find_numbered_list_parens, text)
    THEN RuleReplaceAll(space_between_list_items_third_rule, text)
    ELSE text

\* format_alphabetical_lists and format_roman_numeral_lists of add_line_break.
AlphabetPasses(text) ==
    The({iterate_alphabet_array(t3, alphabetical_list_with_parens, TRUE, TRUE) :
         t3 \in {iterate_alphabet_array(t2, alphabetical_list_with_periods, FALSE, TRUE) :
         t2 \in {iterate_alphabet_array(t1, alphabetical_list_with_parens, TRUE, FALSE) :
         t1 \in {iterate_alphabet_array(text, alphabetical_list_with_periods,
                                        FALSE, FALSE)}}}})

\* add_line_break: [status, text]; a panic of either scan ends the call.
\* The part of add_line_break after the first scan, s1 the state it ended in.
AfterFirstScan(text, s1, build) ==
    IF s1.status = "panic" THEN [status |-> "panic", text |-> text]
    ELSE The({IF s2.status = "panic" THEN [status |-> "panic", text |-> text]
              ELSE [status |-> "done",
                    text |-> RuleReplaceAll(list_marker_rule,
                        add_line_breaks_for_numbered_list_with_parens(s2.result))] :
              s2 \in {scan_lists(t5, numbered_list_parens_regex,
                                 numbered_list_parens_regex, ListParenMark, FALSE, build) :
              t5 \in {RuleReplaceAll(substitute_list_period_rule,
                         add_line_breaks_for_numbered_list_with_periods(s1.result))}}})

add_line_break(text, build) ==
    The({AfterFirstScan(text, s1, build) :
         s1 \in {scan_lists(t4, numbered_list_regex_1, numbered_list_regex_2,
                            ListPeriodMark, TRUE, build) :
         t4 \in {AlphabetPasses(text)}}})

----------------------------------------------------------------------------
(* The abbreviation replacer (src/src/abbreviation_replacer.rs) *)

AbbreviationWords ==
    <<"adj", "adm", "adv", "al", "ala", "alta", "apr", "arc", "ariz", "ark", "art",
      "assn", "asst", "attys", "aug", "ave", "bart", "bld", "bldg", "blvd", "brig",
      "bros", "btw", "cal", "calif", "capt", "cl", "cmdr", "co", "col", "colo", "comdr",
      "con", "conn", "corp", "cpl", "cres", "ct", "d.phil", "dak", "dec", "del", "dept",
      "det", "dist", "dr", "dr.phil", "dr.philos", "drs", "e.g", "ens", "esp", "esq",
      "etc", "exp", "expy", "ext", "feb", "fed", "fla", "ft", "fwy", "fy", "ga", "gen",
      "gov", "hon", "hosp", "hr", "hway", "hwy", "i.e", "ia", "id", "ida", "ill", "inc",
      "ind", "ing", "insp", "is", "jan", "jr", "jul", "jun", "kan", "kans", "ken", "ky",
      "la", "lt", "ltd", "maj", "man", "mar", "mass", "may", "md", "me", "med", "messrs",
      "mex", "mfg", "mich", "min", "minn", "miss", "mlle", "mm", "mme", "mo", "mont",
      "mr", "mrs", "ms", "msgr", "mssrs", "mt", "mtn", "neb", "nebr", "nev", "no", "nos",
      "nov", "nr", "oct", "ok", "okla", "ont", "op", "ord", "ore", "p", "pa", "pd",
      "pde", "penn", "penna", "pfc", "ph", "ph.d", "pl", "plz", "pp", "prof", "pvt",
      "que", "rd", "rs", "ref", "rep", "reps", "res", "rev", "rt", "sask", "sec", "sen",
      "sens", "sep", "sept", "sfc", "sgt", "sr", "st", "supt", "surg", "tce", "tenn",
      "tex", "univ", "usafa", "u.s", "ut", "va", "v", "ver", "viz", "vs", "vt", "wash",
      "wis", "wisc", "wy", "wyo", "yuk", "fig">>

\* ABBREVIATIONS, each word as a text.
ABBREVIATIONS == [k \in 1..Len(AbbreviationWords) |-> Chars(AbbreviationWords[k])]

PrepositiveWords ==
    {"adm", "attys", "brig", "capt", "cmdr", "col", "cpl", "det", "dr", "gen", "gov",
     "ing", "lt", "maj", "mr", "mrs", "ms", "mt", "messrs", "mssrs", "prof", "ph",
     "rep", "reps", "rev", "sen", "sens", "sgt", "st", "supt", "v", "vs", "fig"}
prepositive_abbreviations == {Chars(w) : w \in PrepositiveWords}
number_abbreviations == {Chars(w) : w \in {"art", "ext", "no", "nos", "p", "pp"}}

possessive_abbreviation_rule ==
    Rule(Alt(<<Cat(<<C("."), La(Cat(<<S("'s"), ReWS>>))>>),
               Cat(<<C("."), La(Cat(<<S("'s"), Eol>>))>>),
               Cat(<<C("."), La(Cat(<<S("'s"), EosZ>>))>>)>>),
         <<MaskedPeriod>>)

kommanditgesellschaft_rule ==
    Rule(Cat(<<Lb(S("Co")), C("."), La(Cat(<<ReWS, S("KG")>>))>>), <<MaskedPeriod>>)

single_letter_abbreviation_rules ==
    <<Rule(Cat(<<Lb(Cat(<<Bol, ReUpper>>)), C("."), La(ReWS)>>), <<MaskedPeriod>>),
      Rule(Cat(<<Lb(Cat(<<ReWS, ReUpper>>)), C("."), La(Cat(<<Opt(C(",")), ReWS>>))>>),
           <<MaskedPeriod>>)>>

\* (?<=x)M(?=\s[A-Z]) of the four am/pm rules, M the masked period.
AmPmRule(before) ==
    Rule(Cat(<<Lb(Str(before)), C(MaskedPeriod), La(Cat(<<ReWS, ReUpper>>))>>), <<".">>)

am_pm_rules ==
    <<AmPmRule(<<" ", "P", MaskedPeriod, "M">>),
      AmPmRule(<<"A", MaskedPeriod, "M">>),
      AmPmRule(<<"p", MaskedPeriod, "m">>),
      AmPmRule(<<"a", MaskedPeriod, "m">>)>>

\* The pattern an abbreviation word makes when it is written into a pattern
\* as it is: a period of the word is the wildcard.
AbbrPattern(abbr, ignore_case) ==
    Cat([k \in 1..Len(abbr) |->
            IF abbr[k] = "." THEN Dot
            ELSE IF ignore_case THEN Ch(BothCases(abbr[k])) ELSE C(abbr[k])])

\* abbr_match of an abbreviation: (?:^|\s|\r|\n){abbr}, ignoring case.
abbr_match(abbr) ==
    Cat(<<Alt(<<Bol, ReWS, C("\r"), C("\n")>>), AbbrPattern(abbr, TRUE)>>)

\* next_word_start of an abbreviation: (?<={abbr} ).{1} with the braces of the
\* format string left in the pattern, and the periods of the word escaped.
next_word_start(abbr) ==
    Cat(<<Lb(Cat(<<C("{"), Str(abbr), C("}"), C(" ")>>)), Rep(Dot, 1, 1)>>)

multi_period_abbreviation_regex ==
    Cat(<<Wb, ReLetterI, Plus(Cat(<<C("."), ReLetterI>>)), C(".")>>)

SentenceStarters ==
    <<"A", "Being", "Did", "For", "He", "How", "However", "I", "In", "It",
      "Millions", "More", "She", "That", "The", "There", "They", "We", "What",
      "When", "Where", "Who", "Why">>

replace_abbreviation_as_sentence_boundary ==
    Rule(Cat(<<Alt(<<Str(<<"U", MaskedPeriod, "S">>), S("U.S"),
                     Str(<<"U", MaskedPeriod, "K">>),
                     Str(<<"E", MaskedPeriod, "U">>), S("E.U"),
                     Str(<<"U", MaskedPeriod, "S", MaskedPeriod, "A">>), S("U.S.A"),
                     C("I"), Cat(<<C("i"), Dot, C("v")>>),
                     Cat(<<C("I"), Dot, C("V")>>)>>),
               C(MaskedPeriod),
               Alt([k \in 1..Len(SentenceStarters) |->
                       La(Cat(<<ReWS, S(SentenceStarters[k]), ReWS>>))])>>),
         Chars("\\1."))

\* The characters char::is_uppercase holds of, among those of the model.
IsUppercase(c) == c \in Upper

\* The characters char::is_lowercase holds of, among those of the model.
IsLowercase(c) == c \in Lower \cup {UTilde, UCirc}

\* A titlecase letter (U+01C5): cased, and neither uppercase nor lowercase
\* for char::is_uppercase and char::is_lowercase.
TitlecaseDz == "U+01C5"

\* The characters unic_ucd_case::is_cased holds of, among those of the model.
is_cased(c) == c \in Upper \cup Lower \cup {UTilde, UCirc, TitlecaseDz}

\* python_isupper: the loop over the characters, cased telling whether an
\* uppercase letter has been seen.
RECURSIVE IsUpperLoop(_, _)
IsUpperLoop(text, cased) ==
    IF text = <<>> THEN cased
    ELSE IF is_cased(Head(text)) /\ IsUppercase(Head(text))
         THEN IsUpperLoop(Tail(text), TRUE)
    ELSE IF is_cased(Head(text)) /\ IsLowercase(Head(text)) THEN FALSE
    ELSE IsUpperLoop(Tail(text), cased)
python_isupper(text) == IsUpperLoop(text, FALSE)

\* The line ends PythonSplitLines searches for that the model's alphabet
\* has, in the order of the list (leftmost-first: "\r\n" before "\r").
NewlineChars == {"\n", "\r", "\f"}

\* A searcher for which "\r\n" is two line ends.
SearcherNextSingle(input, from) ==
    LET found == {k \in (from + 1)..Len(input) : input[k] \in NewlineChars}
    IN IF found = {} THEN <<>> ELSE <<<<Min(found) - 1, Min(found)>>>>

\* self.searcher.next(): the leftmost line end of input that begins at the
\* offset from or after it, as <<its range>>, or <<>> when there is none;
\* "\r\n" is one line end.
SearcherNext(input, from) ==
    LET found == {k \in (from + 1)..Len(input) : input[k] \in NewlineChars}
    IN IF found = {} THEN <<>>
       ELSE LET k == Min(found)
            IN <<<<k - 1,
                   IF input[k] = "\r" /\ k < Len(input) /\ input[k + 1] = "\n"
                   THEN k + 1 ELSE k>>>>

\* PythonSplitLinesKeepEnds: the pieces of input from last_index on, each with
\* its line end; a rest without a line end is the last piece when not empty.
RECURSIVE SplitFrom(_, _)
SplitFrom(input, last_index) ==
    LET found == {k \in (last_index + 1)..Len(input) : input[k] \in NewlineChars}
    IN IF found = {}
       THEN IF last_index < Len(input)
            THEN <<Slice(input, last_index, Len(input))>> ELSE <<>>
       ELSE LET k == Min(found)
                end == IF input[k] = "\r" /\ k < Len(input) /\ input[k + 1] = "\n"
                       THEN k + 1 ELSE k
            IN <<Slice(input, last_index, end)>> \o SplitFrom(input, end)
splitlines_keepends(input) == SplitFrom(input, 0)

\* The characters that change or break a pattern they are written into, as
\* far as the inputs of the model have them.
RECURSIVE ParenDepth(_, _)
ParenDepth(abbr, depth) ==
    IF abbr = <<>> THEN depth
    ELSE IF Head(abbr) = "(" THEN ParenDepth(Tail(abbr), depth + 1)
    ELSE IF Head(abbr) = ")"
         THEN IF depth = 0 THEN 0 - 1 ELSE ParenDepth(Tail(abbr), depth - 1)
         ELSE ParenDepth(Tail(abbr), depth)

\* re(&regex) of the pattern built around the matched text abbr is an error
\* when abbr leaves a group or a bracket of the pattern open.
CompileFails(abbr) == ParenDepth(abbr, 0) # 0 \/ "[" \in RangeOf(abbr)

\* The pattern of replace_pre_number_abbr for every matched text, whatever
\* its category.
PreNumberPattern(abbr) ==
    Cat(<<Lb(Cat(<<ReWS, AbbrPattern(abbr, FALSE)>>)), C("."),
          La(Alt(<<Cat(<<ReWS, ReDigit>>), Cat(<<Plus(ReWS), C("(")>>)>>))>>)

\* replace_prepositive_abbr, replace_pre_number_abbr, replace_period_of_abbr:
\* the pattern run over the line, by the category of the matched text.
PeriodPattern(abbr) ==
    LET abbr_lower == ToLower(abbr)
        before == Lb(Cat(<<ReWS, AbbrPattern(abbr, FALSE)>>))
    IN IF abbr_lower \in prepositive_abbreviations
       THEN Cat(<<before, C("."),
                  La(Alt(<<ReWS, Cat(<<C(":"), Plus(ReDigit)>>)>>))>>)
       ELSE IF abbr_lower \in number_abbreviations
       THEN Cat(<<before, C("."),
                  La(Alt(<<Cat(<<ReWS, ReDigit>>), Cat(<<Plus(ReWS), C("(")>>)>>))>>)
       ELSE Cat(<<before, C("."),
                  La(Alt(<<Ch({".", ":", "-", "?", ","}),
                           Cat(<<ReWS, Alt(<<ReLower, Cat(<<C("I"), ReWS>>), S("I'm"),
                                            S("I'll"), ReDigit, C("(")>>)>>)>>))>>)

\* No match is skipped.
MatchScanned(text, abbrev_match, char_array, ind) == FALSE

\* Whether the match of index ind (from 0) of an abbreviation is skipped:
\* the character after it is uppercase and the word is not prepositive.
MatchSkipped(text, abbrev_match, char_array, ind) ==
    LET abbr == Trim(Slice(text, abbrev_match[ind + 1][1], abbrev_match[ind + 1][2]))
        r == Get(char_array, ind)
        ch == IF r = <<>> THEN <<>> ELSE Slice(text, r[1][1], r[1][2])
    IN python_isupper(ch) /\ ToLower(abbr) \notin prepositive_abbreviations

\* The matched texts of an abbreviation that are not skipped.
ScannedAbbrs(text, abbrev_match, char_array) ==
    {Trim(Slice(text, abbrev_match[k][1], abbrev_match[k][2])) :
        k \in {j \in 1..Len(abbrev_match) :
                  ~MatchSkipped(text, abbrev_match, char_array, j - 1)}}

\* The offset in bytes of the character of index k (from 0) of a text: the
\* offsets the regex engine reports and String::replace_range takes.
ByteOffset(text, k) == ByteLen(SubSeq(text, 1, k))

\* replace_locations with the indices of the characters for the offsets.
CharLocations(text, abbrs) ==
    LET prepended_text == <<" ">> \o text
    IN UNION {{m[1] - 1 : m \in RangeOf(FindAll(PeriodPattern(a), prepended_text))} :
                 a \in abbrs}

\* replace_locations: the offsets in text of the periods the patterns of the
\* scanned matches find in " " + text, each the offset in " " + text less 1.
ReplaceLocations(text, abbrs) ==
    LET prepended_text == <<" ">> \o text
    IN UNION {{ByteOffset(prepended_text, m[1]) - 1 :
                  m \in RangeOf(FindAll(PeriodPattern(a), prepended_text))} :
                 a \in abbrs}

\* Whether loc..loc + 1 is a range of whole characters of text;
\* String::replace_range panics where it is not.
OnCharBoundaries(text, loc) ==
    \E k \in 1..Len(text) : ByteOffset(text, k - 1) = loc /\ ByteLenChar(text[k]) = 1

\* The text as it is, no location rewritten.
KeepRanges(text, locs) == text

\* String::replace_range(loc..loc + 1, mask) at every location, from the last
\* to the first: the offsets before a rewritten one stay what they were.
ReplaceRanges(text, locs) ==
    [k \in 1..Len(text) |->
        IF ByteOffset(text, k - 1) \in locs THEN MaskedPeriod ELSE text[k]]

\* The body of the loop of search_for_abbreviations_in_string for one
\* abbreviation: [status, text].
SearchOne(st, lowered, abbr) ==
    IF st.status = "panic" \/ ~Contains(lowered, abbr) THEN st
    ELSE The({IF abbrev_match = <<>> THEN st
              ELSE The({IF \E a \in abbrs : CompileFails(a)
                        THEN [status |-> "panic", text |-> st.text]
                        ELSE The({IF \E loc \in locs : ~OnCharBoundaries(st.text, loc)
                                  THEN [status |-> "panic", text |-> st.text]
                                  ELSE [status |-> "done",
                                        text |-> ReplaceRanges(st.text, locs)] :
                                  locs \in {ReplaceLocations(st.text, abbrs)}}) :
                        abbrs \in {ScannedAbbrs(st.text, abbrev_match, char_array) :
                        char_array \in {FindAll(next_word_start(abbr), st.text)}}}) :
              abbrev_match \in {FindAll(abbr_match(abbr), st.text)}})

\* The abbreviations the loop does not pass over at once: those the lowered
\* line contains, in the order of the list.
Candidates(lowered) == SelectSeq(ABBREVIATIONS, LAMBDA abbr : Contains(lowered, abbr))

RECURSIVE SearchLoop(_, _, _, _)
SearchLoop(st, lowered, cands, k) ==
    IF k > Len(cands) THEN st
    ELSE The({SearchLoop(next, lowered, cands, k + 1) :
              next \in {SearchOne(st, lowered, cands[k])}})

\* search_for_abbreviations_in_string on one line: [status, text].
search_for_abbreviations_in_string(text) ==
    LET lowered == ToLower(text)
    IN SearchLoop([status |-> "done", text |-> text], lowered, Candidates(lowered), 1)

\* replace_multi_period_abbreviations: the periods of every match are masked.
ReplaceMultiPeriod(text) ==
    The({ReplaceMatches(text, ms,
            [k \in 1..Len(ms) |->
                ReplaceStr(Slice(text, ms[k][1], ms[k][2]), <<".">>, <<MaskedPeriod>>)]) :
         ms \in {FindAll(multi_period_abbreviation_regex, text)}})

\* The rules of replace before the loop over the lines.
ReplaceHead(text) ==
    ApplyRules(<<possessive_abbreviation_rule, kommanditgesellschaft_rule>>
               \o single_letter_abbreviation_rules, 1, text)

\* The rules of replace after the loop over the lines.
ReplaceTail(text) ==
    The({ApplyRules(am_pm_rules \o <<replace_abbreviation_as_sentence_boundary>>,
                    1, multi) :
         multi \in {ReplaceMultiPeriod(text)}})

\* The loop of replace over the lines: the lines are searched one by one
\* and joined again.
RECURSIVE SearchLines(_, _)
SearchLines(lines, k) ==
    IF k > Len(lines) THEN [status |-> "done", text |-> <<>>]
    ELSE The({IF one.status = "panic" \/ rest.status = "panic"
              THEN [status |-> "panic", text |-> <<>>]
              ELSE [status |-> "done", text |-> one.text \o rest.text] :
              one \in {search_for_abbreviations_in_string(lines[k])},
              rest \in {SearchLines(lines, k + 1)}})

\* AbbreviationReplacer::replace: [status, text].
replace(text) ==
    The({IF handled.status = "panic" THEN [status |-> "panic", text |-> text]
         ELSE [status |-> "done", text |-> ReplaceTail(handled.text)] :
         handled \in {SearchLines(splitlines_keepends(head), 1) :
         head \in {ReplaceHead(text)}}})

----------------------------------------------------------------------------
(* The stages of segment (specification section 4.4) *)

\* The mask of a punctuation mark: its inner character between two "&".
Mask(inner) == <<"&", inner, "&">>

\* The characters of the sentinel alphabet (section 3); a mask is known by
\* its inner character.
SentinelChars ==
    {MaskedPeriod, MaskedIdDot, ListPeriodMark, ListParenMark,
     InnerExcl, InnerQuest, InnerIdeoStop, InnerFullStop, InnerFullExcl,
     InnerFullQuest, InnerLParen, InnerRParen, InnerApos,
     MaskQuestExcl, MaskExclQuest, MaskQuestQuest, MaskExclExcl,
     EllipsisA, EllipsisB, EllipsisC, EllipsisD, FragmentGuard, MaskedNewline, "\r"}

\* The sentence terminators a fragment is searched for.
Punctuations == {IdeoStop, FullStop, ".", FullExcl, "!", "?", FullQuest}

\* A rule whose replacement is one text, applied over the whole document.
Sub(regex, text, rep) == ReplaceLit(regex, text, rep)

\* Stage 1: newline normalization.
NewlineNormalization(text) == ReplaceStr(text, <<"\n">>, <<"\r">>)

\* (?=(\s\S)|\)) of the numeric rules.
LaSpaceOrParen == La(Alt(<<Cat(<<ReWS, ReNotWS>>), C(")")>>))

\* Stage 4: the five rules of numeric protection, in order.
NumericRules ==
    <<Cat(<<C("."), La(ReDigit)>>),
      Cat(<<Lb(ReDigit), C("."), La(ReNotWS)>>),
      Cat(<<Lb(Cat(<<C("\r"), ReDigit>>)), C("."), LaSpaceOrParen>>),
      Cat(<<Lb(Cat(<<Bol, ReDigit>>)), C("."), LaSpaceOrParen>>),
      Cat(<<Lb(Cat(<<Bol, ReDigit, ReDigit>>)), C("."), LaSpaceOrParen>>)>>

RECURSIVE ApplyAll(_, _, _, _)
ApplyAll(rules, k, text, rep) ==
    IF k > Len(rules) THEN text
    ELSE The({ApplyAll(rules, k + 1, next, rep) : next \in {Sub(rules[k], text, rep)}})

NumericProtection(text) == ApplyAll(NumericRules, 1, text, <<MaskedPeriod>>)

\* The characters of text, each replaced by its image under the map subst
\* (a function from characters to texts) where it has one.
SubChars(text, subst) ==
    Flatten([k \in 1..Len(text) |->
                IF text[k] \in DOMAIN subst THEN subst[text[k]] ELSE <<text[k]>>])

\* The text with the matches of regex rewritten by SubChars.
SubInMatches(regex, text, subst) ==
    The({ReplaceMatches(text, ms,
            [k \in 1..Len(ms) |-> SubChars(Slice(text, ms[k][1], ms[k][2]), subst)]) :
         ms \in {FindAll(regex, text)}})

\* Stage 5: continuous punctuation.
ContinuousPunctuationRegex ==
    Cat(<<Lb(ReNotWS), Rep(Ch({"!", "?"}), 3, Inf), La(Alt(<<ReWS, EosZ, Eol>>))>>)

ContinuousPunctuation(text) ==
    SubInMatches(ContinuousPunctuationRegex, text,
                 ("!" :> Mask(InnerExcl)) @@ ("?" :> Mask(InnerQuest)))

\* Stage 6: numbered references. Group 2 is the reference, in brackets or
\* bare; group 7 is the white space after it.
ReDigit13 == Rep(ReDigit, 1, 3)
NumberedReferenceRegex ==
    Cat(<<Lb(NotCh(Digit \cup WS)), Ch({".", MaskedPeriod}),
          Alt(<<Plus(Cat(<<C("["),
                           Star(Cat(<<ReDigit13, Opt(C(",")), Opt(ReWS), Opt(C("-")),
                                      Opt(ReWS)>>)),
                           Wb, ReDigit13, C("]")>>)),
                Cat(<<Rep(Cat(<<ReDigit13, Opt(ReWS)>>), 0, 3), ReDigit13>>)>>),
          ReWS, La(ReUpper)>>)

NumberedReferences(text) ==
    LET Repl(mat) == <<MaskedPeriod>> \o SubSeq(mat, 2, Len(mat) - 1)
                        \o <<"\r", mat[Len(mat)]>>
    IN The({ReplaceMatches(text, ms,
                           [k \in 1..Len(ms) |-> Repl(Slice(text, ms[k][1], ms[k][2]))]) :
            ms \in {FindAll(NumberedReferenceRegex, text)}})

\* Stage 7: misc masking.
IdChar == Ch(Letter \cup Digit \cup {"_"})
EmailRegex == Cat(<<IdChar, C("."), IdChar>>)
GeoRegex ==
    Cat(<<Lb(Cat(<<Ch(Letter), C(Degree)>>)), C("."),
          La(Cat(<<Star(ReWS), Plus(ReDigit)>>))>>)

FileExtensions ==
    <<Cat(<<S("jp"), Opt(C("e")), C("g")>>), S("png"), S("gif"),
      Cat(<<S("tif"), Opt(C("f"))>>), S("pdf"), S("ps"),
      Cat(<<S("doc"), Opt(C("x"))>>), Cat(<<S("xls"), Opt(C("x"))>>), S("svg"),
      S("bmp"), S("tga"), S("exif"), S("odt"), Cat(<<S("htm"), Opt(C("l"))>>),
      S("txt"), S("rtf"), S("bat"), S("sxw"), S("xml"), S("zip"), S("exe"),
      S("msi"), S("blend"), S("wmv"), Cat(<<S("mp"), Ch({"3", "4"})>>),
      Cat(<<S("ppt"), Opt(C("x"))>>), S("flac"), S("rb"), S("cpp"), S("cs"),
      S("js")>>
FileExtensionRegex == Cat(<<Lb(ReWS), C("."), La(Cat(<<Alt(FileExtensions), ReWS>>))>>)

\* (X)(\.)(Y) becomes X, the mask, Y.
EmailMasking(text) ==
    The({ReplaceMatches(text, ms,
            [k \in 1..Len(ms) |->
                <<text[ms[k][1] + 1], MaskedIdDot, text[ms[k][2]]>>]) :
         ms \in {FindAll(EmailRegex, text)}})

MiscMasking(text) ==
    Sub(FileExtensionRegex,
        Sub(GeoRegex, EmailMasking(text), <<MaskedPeriod>>),
        <<MaskedPeriod>>)

\* Stage 8: parens between quotes; the two spaces around the parentheses
\* become breaks.
ParensBetweenQuotesRegex ==
    Cat(<<Ch({"\"", SlantDoubleR}), ReWS, C("("), Star(Dot), C(")"), ReWS,
          Ch({"\"", SlantDoubleL})>>)

ParensBetweenQuotes(text) ==
    LET Repl(mat) == <<mat[1], "\r">> \o SubSeq(mat, 3, Len(mat) - 2)
                        \o <<"\r", mat[Len(mat)]>>
    IN The({ReplaceMatches(text, ms,
                           [k \in 1..Len(ms) |-> Repl(Slice(text, ms[k][1], ms[k][2]))]) :
            ms \in {FindAll(ParensBetweenQuotesRegex, text)}})

\* Stage 9: the fragments between the breaks, the empty ones dropped.
RECURSIVE SplitAt(_, _, _)
SplitAt(text, sep, from) ==
    LET rest == {k \in (from + 1)..Len(text) : text[k] = sep}
    IN IF rest = {}
       THEN IF from < Len(text) THEN <<Slice(text, from, Len(text))>> ELSE <<>>
       ELSE LET k == Min(rest)
            IN (IF k - 1 > from THEN <<Slice(text, from, k - 1)>> ELSE <<>>)
               \o SplitAt(text, sep, k)

\* The text as one fragment whatever it holds, the empty text too.
OneFragment(text) == <<text>>
SplitOnBreaks(text) == SplitAt(text, "\r", 0)

\* Stage 10, per fragment. The two characters backslash and n become the
\* masked newline.
BackslashN == <<"\\", "n">>
MaskEscapedNewline(text) == ReplaceStr(text, BackslashN, <<MaskedNewline>>)

Times(c, n) == [k \in 1..n |-> c]

\* The five ellipsis rules, in order, each with its replacement.
EllipsisRules ==
    <<Rule(Cat(<<Rep(Cat(<<ReWS, C(".")>>), 3, 3), ReWS>>), Times(EllipsisC, 7)),
      Rule(Cat(<<Lb(ReLower), Rep(Cat(<<C("."), ReWS>>), 3, 3), C("."),
                 Alt(<<Eol, Str(BackslashN)>>)>>),
           Times(EllipsisD, 7)),
      Rule(Cat(<<Lb(ReNotWS), S("..."), La(Cat(<<C("."), ReWS, ReUpper>>))>>),
           Times(EllipsisA, 3)),
      Rule(Cat(<<S("..."), La(Cat(<<Plus(ReWS), ReUpper>>))>>),
           <<EllipsisB, EllipsisB, ".">>),
      Rule(S("..."), Times(EllipsisA, 3))>>

EllipsisMasking(text) == ApplyRules(EllipsisRules, 1, text)

HasPunctuation(text) == \E k \in 1..Len(text) : text[k] \in Punctuations

\* The end-of-fragment guard is appended to a fragment that does not end
\* with a terminator.
AppendGuard(text) ==
    IF text[Len(text)] \in Punctuations THEN text ELSE text \o <<FragmentGuard>>

\* The substitution of the terminators inside an exempted span.
PunctuationMasks ==
    ("." :> <<MaskedPeriod>>) @@ (IdeoStop :> Mask(InnerIdeoStop))
    @@ (FullStop :> Mask(InnerFullStop)) @@ (FullExcl :> Mask(InnerFullExcl))
    @@ ("!" :> Mask(InnerExcl)) @@ ("?" :> Mask(InnerQuest))
    @@ (FullQuest :> Mask(InnerFullQuest))

\* Inside single quotes the quote itself is rewritten as well.
SingleQuoteMasks == PunctuationMasks @@ ("'" :> Mask(InnerApos))

ExclamationWordList ==
    <<<<"!", "X", UTilde>>, Chars("!Kung"),
      <<Click, ModApos, "O", Click, "K", "u", "n", "g">>, Chars("!Xuun"),
      Chars("!Kung-Ekoka"), <<Click, "H", "u">>, <<Click, "K", "h", "u", "n", "g">>,
      <<Click, "K", "u">>, <<Click, "u", "n", "g">>, <<Click, "X", "o">>,
      <<Click, "X", UCirc>>, <<Click, "X", "u", "n", "g">>, <<Click, "X", UTilde>>,
      Chars("!Xun"), Chars("Yahoo!"), Chars("Y!J"), Chars("Yum!")>>
ExclamationWords ==
    Alt([k \in 1..Len(ExclamationWordList) |-> Str(ExclamationWordList[k])])

ExclamationWordExemption(text) == SubInMatches(ExclamationWords, text, PunctuationMasks)

\* '...' after white space, an apostrophe before a letter being part of the
\* quoted text.
BetweenSingleQuotes ==
    Cat(<<Lb(ReWS), C("'"),
          Star(Alt(<<NotCh({"'"}), Cat(<<C("'"), Ch(Letter)>>)>>)), C("'")>>)
WordWithLeadingApostrophe == Cat(<<BetweenSingleQuotes, ReNotWS>>)
BetweenSlantedSingleQuotes ==
    Cat(<<Lb(ReWS), C(SlantSingleL),
          Star(Alt(<<NotCh({SlantSingleR}), Cat(<<C(SlantSingleR), Ch(Letter)>>)>>)),
          C(SlantSingleR)>>)

\* open ... close with the text between them one run free of the closing
\* characters and of backslashes, or one escaped character.
Balanced(open, close, inner) ==
    Cat(<<C(open),
          Alt(<<Plus(NotCh(inner \cup {"\\"})), Str(<<"\\", "\\">>),
                Cat(<<C("\\"), Dot>>)>>),
          C(close)>>)

BetweenDoubleQuotes == Balanced("\"", "\"", {"\""})
BetweenSquareBrackets == Balanced("[", "]", {"]"})
BetweenParens == Balanced("(", ")", {"(", ")"})
BetweenArrowQuotes == Balanced(ArrowL, ArrowR, {ArrowR})
BetweenEmDashes == Cat(<<S("--"), Star(NotCh({"-"})), S("--")>>)
BetweenSlantedDoubleQuotes == Balanced(SlantDoubleL, SlantDoubleR, {SlantDoubleR})

\* The single-quote exemption is left out only when a word with a leading
\* apostrophe is found and no quote is followed by white space.
SingleQuoteExemption(text) ==
    IF Matches(WordWithLeadingApostrophe, text)
       /\ ~Matches(Cat(<<C("'"), ReWS>>), text)
    THEN text
    ELSE SubInMatches(BetweenSingleQuotes, text, SingleQuoteMasks)

BalancedSpans ==
    <<BetweenSlantedSingleQuotes, BetweenDoubleQuotes, BetweenSquareBrackets,
      BetweenParens, BetweenArrowQuotes, BetweenEmDashes, BetweenSlantedDoubleQuotes>>

RECURSIVE ExemptSpans(_, _, _)
ExemptSpans(spans, k, text) ==
    IF k > Len(spans) THEN text
    ELSE The({ExemptSpans(spans, k + 1, next) :
              next \in {SubInMatches(spans[k], text, PunctuationMasks)}})

BalancedSpanExemption(text) == ExemptSpans(BalancedSpans, 1, SingleQuoteExemption(text))

\* Double punctuation: the four pairs and their masks, in order.
DoublePunctuationPairs ==
    <<Rule(S("?!"), <<MaskQuestExcl>>), Rule(S("!?"), <<MaskExclQuest>>),
      Rule(S("??"), <<MaskQuestQuest>>), Rule(S("!!"), <<MaskExclExcl>>)>>

BeginsWithPair(text) ==
    Len(text) >= 2 /\ text[1] \in {"?", "!"} /\ text[2] \in {"?", "!"}

DoublePunctuation(text) ==
    IF BeginsWithPair(text) THEN text ELSE ApplyRules(DoublePunctuationPairs, 1, text)

LaQuote == La(Ch({"'", "\""}))
MidSentenceRules ==
    <<Rule(Cat(<<C("?"), LaQuote>>), Mask(InnerQuest)),
      Rule(Cat(<<C("!"), LaQuote>>), Mask(InnerExcl)),
      Rule(Cat(<<C("!"), La(Cat(<<C(","), ReWS, ReLower>>))>>), Mask(InnerExcl)),
      Rule(Cat(<<C("!"), La(Cat(<<ReWS, ReLower>>))>>), Mask(InnerExcl))>>

MidSentenceMasking(text) == ApplyRules(MidSentenceRules, 1, text)

\* Parenthesized roman numerals. The replacement keeps group 1, the hundreds.
RomanHundreds ==
    Alt(<<Cat(<<C("c"), Ch({"m", "d"})>>), Cat(<<Opt(C("d")), Star(C("c"))>>)>>)
RomanRest ==
    Cat(<<Alt(<<Cat(<<C("x"), Ch({"c", "l"})>>), Cat(<<Opt(C("l")), Star(C("x"))>>)>>),
          Alt(<<Cat(<<C("i"), Ch({"x", "v"})>>), Cat(<<Opt(C("v")), Star(C("i"))>>)>>),
          C(")"), La(Cat(<<ReWS, ReUpper>>))>>)
ParenRomanRegex ==
    Cat(<<C("("), La(Ch({"m", "d", "c", "l", "x", "v", "i"})), Star(C("m")),
          RomanHundreds, RomanRest>>)

\* Group 1 of the match of ParenRomanRegex that starts at cursor p of text.
RomanGroup1(text, p) ==
    LET from == M(Star(C("m")), text, p + 1)[1]
        ends == M(RomanHundreds, text, from)
        k == CHOOSE j \in 1..Len(ends) :
                /\ M(RomanRest, text, ends[j]) # <<>>
                /\ \A i \in 1..(j - 1) : M(RomanRest, text, ends[i]) = <<>>
    IN Slice(text, from, ends[k])

ParenRomanNumerals(text) ==
    The({ReplaceMatches(text, ms,
            [k \in 1..Len(ms) |->
                Mask(InnerLParen) \o RomanGroup1(text, ms[k][1]) \o Mask(InnerRParen)]) :
         ms \in {FindAll(ParenRomanRegex, text)}})

\* The mask of "!" at the end of the fragment becomes "!" again.
TailRestoration(text) == Sub(Cat(<<Str(Mask(InnerExcl)), Eol>>), text, <<"!">>)

\* Sentence-boundary extraction: the master boundary regex; every match is a
\* sentence.
Terminator == Ch(Punctuations)
BoundaryEnd ==
    Ch(Punctuations \cup {FragmentGuard, MaskedNewline, MaskQuestExcl, MaskExclQuest,
                          MaskQuestQuest, MaskExclExcl})
LaSpaceUpper == La(Cat(<<ReWS, ReUpper>>))
\* open ... close with a last character that is no comma, before a capital.
QuotedSentence(open, close) ==
    Cat(<<C(open), Star(NotCh({close})), NotCh({","}), C(close), LaSpaceUpper>>)

SentenceBoundaryRegex ==
    Alt(<<Cat(<<C(FullLParen), Star(NotCh({FullRParen})), C(FullRParen),
                La(Cat(<<Opt(ReWS), ReUpper>>))>>),
          Cat(<<C(CornerL), Star(NotCh({CornerR})), C(CornerR), LaSpaceUpper>>),
          Cat(<<C("("), Rep(NotCh({")"}), 2, Inf), C(")"), LaSpaceUpper>>),
          QuotedSentence("'", "'"),
          QuotedSentence("\"", "\""),
          QuotedSentence(SlantDoubleL, SlantDoubleR),
          Cat(<<Terminator, Star(Dot)>>),
          Cat(<<ReNotWS, Lazy(Dot, 0, Inf), BoundaryEnd>>)>>)

BoundaryExtraction(text) ==
    The({[k \in 1..Len(ms) |-> Slice(text, ms[k][1], ms[k][2])] :
         ms \in {FindAll(SentenceBoundaryRegex, text)}})

\* The processing of a fragment that has a terminator, step by step.
ProcessPunctuated(text) ==
    The({BoundaryExtraction(tail) :
         tail \in {TailRestoration(roman) :
         roman \in {ParenRomanNumerals(mid) :
         mid \in {MidSentenceMasking(pairs) :
         pairs \in {DoublePunctuation(spans) :
         spans \in {BalancedSpanExemption(words) :
         words \in {ExclamationWordExemption(guarded) :
         guarded \in {AppendGuard(text)}}}}}}}})

\* Stage 10 on one fragment: the sentences of the fragment.
ProcessFragment(fragment) ==
    The({IF HasPunctuation(text) THEN ProcessPunctuated(text) ELSE <<text>> :
         text \in {EllipsisMasking(escaped) :
         escaped \in {MaskEscapedNewline(fragment)}}})

\* Stage 11 on one sentence: the reverse substitution, in order.
ReverseRules ==
    <<Rule(C(MaskedPeriod), <<".">>), Rule(C(MaskedComma), <<ArabicComma>>),
      Rule(C(MaskedColon), <<":">>),
      Rule(Str(Mask(InnerIdeoStop)), <<IdeoStop>>),
      Rule(Str(Mask(InnerFullStop)), <<FullStop>>),
      Rule(Str(Mask(InnerFullExcl)), <<FullExcl>>),
      Rule(Str(Mask(InnerExcl)), <<"!">>), Rule(Str(Mask(InnerQuest)), <<"?">>),
      Rule(Str(Mask(InnerFullQuest)), <<FullQuest>>),
      Rule(C(MaskQuestExcl), <<"?", "!">>), Rule(C(MaskQuestQuest), <<"?", "?">>),
      Rule(C(MaskExclQuest), <<"!", "?">>), Rule(C(MaskExclExcl), <<"!", "!">>),
      Rule(Str(Mask(InnerLParen)), <<"(">>), Rule(Str(Mask(InnerRParen)), <<")">>),
      Rule(C(FragmentGuard), <<>>), Rule(C(MaskedNewline), <<"\n">>)>>

ReverseSubstitution(sentence) == ApplyRules(ReverseRules, 1, sentence)

\* The post-process of a sentence.
ReinsertEllipsisRules ==
    <<Rule(Str(Times(EllipsisA, 3)), Chars("...")),
      Rule(Str(Times(EllipsisC, 7)), Chars(" . . . ")),
      Rule(Str(Times(EllipsisD, 7)), Chars(". . . .")),
      Rule(Str(<<EllipsisB, EllipsisB>>), Chars("..")),
      Rule(C(MaskedIdDot), <<".">>)>>

QuoteEnd == Cat(<<Ch({"!", "?", ".", "-"}), Ch({"\"", "'", SlantDoubleL, SlantDoubleR}), ReWS>>)
QuotationAtEndOfSentence == Cat(<<QuoteEnd, ReUpper>>)

\* The pieces of text between the cursors of cuts, a set of cursors inside it.
RECURSIVE CutAt(_, _, _)
CutAt(text, cuts, from) ==
    IF \A q \in cuts : q <= from THEN <<Slice(text, from, Len(text))>>
    ELSE The({<<Slice(text, from, q)>> \o CutAt(text, cuts, q) :
              q \in {Min({x \in cuts : x > from})}})

\* The split before the white space that follows the quotation.
SplitBeforeSpace(text) ==
    CutAt(text, {q \in 1..(Len(text) - 1) :
                    M(Cat(<<Lb(Cat(<<Ch({"!", "?", ".", "-"}),
                                     Ch({"\"", "'", SlantDoubleL, SlantDoubleR})>>)),
                            La(Cat(<<ReWS, ReUpper>>))>>), text, q) # <<>>}, 0)

\* The split at the end of a quotation: the white space stays with the
\* sentence before it.
SplitAtQuotation(text) ==
    CutAt(text, {q \in 1..(Len(text) - 1) :
                    M(Cat(<<Lb(QuoteEnd), La(ReUpper)>>), text, q) # <<>>}, 0)

RestoreApostrophe(sentence) == ReplaceStr(sentence, Mask(InnerApos), <<"'">>)

PostProcess(sentence) ==
    IF Len(sentence) > 2 /\ \A k \in 1..Len(sentence) : sentence[k] \in Letter
    THEN <<sentence>>
    ELSE The({[k \in 1..Len(parts) |-> RestoreApostrophe(parts[k])] :
              parts \in {IF Matches(QuotationAtEndOfSentence, text)
                         THEN SplitAtQuotation(text)
                         ELSE <<TrimEnd(text)>> :
              text \in {ApplyRules(ReinsertEllipsisRules, 1, sentence)}}})

\* Stage 10 over the fragments, stage 11 over the sentences.
PerFragmentProcessing(fragments) ==
    Flatten([k \in 1..Len(fragments) |-> ProcessFragment(fragments[k])])
ReverseAndCleanup(sentences) ==
    Flatten([k \in 1..Len(sentences) |-> PostProcess(ReverseSubstitution(sentences[k]))])

\* The stages 1 to 8 work on the document; the number of a stage names it.
StageNames ==
    <<"newline normalization", "list-item replacement", "abbreviation replacement",
      "numeric protection", "continuous punctuation", "numbered references",
      "misc masking", "parens between quotes", "split", "per-fragment processing",
      "reverse substitution and cleanup">>

\* The stages 4 to 8, each on the whole output of the one before.
MaskingStages(text) ==
    The({ParensBetweenQuotes(misc) :
         misc \in {MiscMasking(references) :
         references \in {NumberedReferences(continuous) :
         continuous \in {ContinuousPunctuation(numeric) :
         numeric \in {NumericProtection(text)}}}}})

\* segment as one function of the text and the build: [status, sentences].
\* The stages 4 to 11 on the output of stage 3.
LaterStages(text) ==
    The({ReverseAndCleanup(sentences) :
         sentences \in {PerFragmentProcessing(fragments) :
         fragments \in {SplitOnBreaks(masked) :
         masked \in {MaskingStages(text)}}}})

\* The stages 3 to 11 on the output of stage 2.
AfterListItems(lists) ==
    IF lists.status = "panic" THEN [status |-> "panic", sentences |-> <<>>]
    ELSE The({IF abbrs.status = "panic" THEN [status |-> "panic", sentences |-> <<>>]
              ELSE [status |-> "done", sentences |-> LaterStages(abbrs.text)] :
              abbrs \in {replace(lists.text)}})

\* segment as one function of the text and the build: [status, sentences].
Segment(text, build) ==
    The({AfterListItems(lists) :
         lists \in {add_line_break(normal, build) :
         normal \in {NewlineNormalization(text)}}})

----------------------------------------------------------------------------
(* The state machine of segment calls on one shared Segmenter *)

\* The tables Segmenter::new builds; nothing writes them afterwards.
Segmenter_new ==
    [roman_numerals |-> roman_numerals,
     latin_numerals |-> latin_numerals,
     abbreviations |-> AbbreviationWords,
     prepositive_abbreviations |-> PrepositiveWords]

\* One storage for the intermediate text of every call.
SharedSlot(c) == 1
\* The storage of the intermediate text of call c: every call has its own.
Slot(c) == c

\* The stage after the stage that follows stage k.
SkipStage(k) == k + 2
\* The stage that follows stage k.
NextStage(k) == k + 1

\* Bounds of the model.
MaxCalls == 2       \* the calls that run in parallel
MaxWords == 2       \* the words of a generated text

\* Input texts taken from the tests, the scenarios, and the rules.
ScenarioTexts ==
    {Chars(""),
     Chars("U.S. army at www.stanler.com"),
     Chars("U.S. and NYSE's U.S."),
     Chars("AA Inc. is including"),
     Chars("Humana Inc. is including"),
     Chars("Our \"business.\" Walgreens"),
     Chars("Our \"business.\"\nWalgreens"),
     Chars("a. one b. two c. three"),
     Chars("{inc} A inc. is"),
     Chars("see no. y"),
     Chars("x a._.b y"),
     Chars("I live in the U.S. How about you?"),
     Chars("x (i) A."),
     Chars("x \\n y."),
     Chars("U.S. u(s. x"),
     Chars("1. x"),
     Chars("1. aa 2. bb"),
     Chars("1) aa 2) bb"),
     Chars("Hello world. This is it! Really?  Yes"),
     Chars("He said \"a. b!\" and (c?) [d.] --e.-- x 'f.' y. Then z"),
     Chars("Wait... What?! No!! a . . . b"),
     Chars("I use Yahoo! daily. It costs 3.50 now!!! Ok"),
     Chars("See fig. 2 and p. 5 of Mr. Smith at 5 p.m. Then"),
     Chars("word.[1] The file .pdf is (a) x (b) y")}

\* The words of the generated texts.
Vocabulary ==
    <<Chars("Inc."), Chars("is"), Chars("The"), Chars("U.S."), Chars("a.b"),
      Chars("1."), Chars("x!"), Chars("'s.'")>>

\* The texts of n words of the vocabulary, one space between two words.
RECURSIVE WordTexts(_)
WordTexts(n) ==
    IF n = 1 THEN {Vocabulary[k] : k \in 1..Len(Vocabulary)}
    ELSE {head \o <<" ">> \o Vocabulary[k] :
             head \in WordTexts(n - 1), k \in 1..Len(Vocabulary)}

\* A quotation that ends with a mark, then a white space and a capital.
QuoteTexts ==
    {lead \o <<quote>> \o inner \o <<mark, quote, space>> \o Chars("Walgreens") :
        lead \in {<<>>, Chars("Our ")}, quote \in {"\"", "'"},
        inner \in {Chars("business"), Chars("a Yahoo")},
        mark \in {".", "!", "?", "-"}, space \in {" ", "\t", "\n"}}

\* An abbreviation with its period between two words.
AbbreviationTexts ==
    {lead \o abbr \o <<".", space>> \o rest :
        lead \in {Chars("Humana "), Chars("AA "), Chars("{inc} A "), Chars("{inc} a ")},
        abbr \in {Chars("Inc"), Chars("inc"), Chars("Co"), Chars("Mr"), Chars("No"),
                  Chars("U.S"), Chars("Xy")},
        space \in {" ", "\t", "\n"},
        rest \in {Chars("is including"), Chars("Is"), Chars("5 is")}}

Inputs ==
    ScenarioTexts \cup QuoteTexts \cup AbbreviationTexts
        \cup UNION {WordTexts(n) : n \in 1..MaxWords}

\* The texts of the calls that run in parallel.
ParallelInputs == {Chars("1. x"), Chars("Our \"a.\" Bc")}

NoUnit == [op |-> "none"]

\* The state after Segmenter::new and the calls of segment, before any of
\* them has taken a step.
InitCalls(calls, texts) ==
    /\ tables = Segmenter_new
    /\ profile \in Builds
    /\ given \in [calls -> texts]
    /\ stage = [c \in calls |-> 0]
    /\ status = [c \in calls |-> "running"]
    /\ doc = [s \in {Slot(c) : c \in calls} |-> <<>>]
    /\ frags = [c \in calls |-> <<>>]
    /\ pending = [c \in calls |-> <<>>]
    /\ out = [c \in calls |-> <<>>]

Init == InitCalls({1}, Inputs) /\ unit = NoUnit
\* The calls that run in parallel are interchangeable: they are numbered in
\* the order of the lengths of their texts.
InitPar ==
    /\ InitCalls(1..MaxCalls, ParallelInputs)
    /\ \A c \in 1..(MaxCalls - 1) : Len(given[c]) <= Len(given[c + 1])
    /\ unit = NoUnit

\* Call c has been made and has finished stage k, and no more.
Running(c, k) == c \in DOMAIN given /\ status[c] = "running" /\ stage[c] = k

\* Call c has returned its iterator, which is not exhausted.
Ready(c) == c \in DOMAIN given /\ status[c] = "ready"

\* A stage that rewrites the document of call c.
DocStage(c, k, text) ==
    /\ doc' = [doc EXCEPT ![Slot(c)] = text]
    /\ stage' = [stage EXCEPT ![c] = NextStage(stage[c])]
    /\ UNCHANGED <<tables, profile, given, status, frags, pending, out, unit>>

\* A call that ends in a panic.
Abort(c, k) ==
    /\ status' = [status EXCEPT ![c] = "panic"]
    /\ UNCHANGED <<tables, profile, given, stage, doc, frags, pending, out, unit>>

NewlineNormalizationStage(c) ==
    Running(c, 0) /\ DocStage(c, 1, NewlineNormalization(given[c]))

\* Stage 2 ends the call in a panic or rewrites the document.
ListItemStage(c) ==
    /\ Running(c, 1)
    /\ \E r \in {add_line_break(doc[Slot(c)], profile)} :
          \/ r.status = "panic" /\ Abort(c, 2)
          \/ r.status = "done" /\ DocStage(c, 2, r.text)

\* Stage 3 ends the call in a panic or rewrites the document.
AbbreviationStage(c) ==
    /\ Running(c, 2)
    /\ \E r \in {replace(doc[Slot(c)])} :
          \/ r.status = "panic" /\ Abort(c, 3)
          \/ r.status = "done" /\ DocStage(c, 3, r.text)

NumericProtectionStage(c) ==
    Running(c, 3) /\ DocStage(c, 4, NumericProtection(doc[Slot(c)]))
ContinuousPunctuationStage(c) ==
    Running(c, 4) /\ DocStage(c, 5, ContinuousPunctuation(doc[Slot(c)]))
NumberedReferencesStage(c) ==
    Running(c, 5) /\ DocStage(c, 6, NumberedReferences(doc[Slot(c)]))
MiscMaskingStage(c) ==
    Running(c, 6) /\ DocStage(c, 7, MiscMasking(doc[Slot(c)]))
ParensBetweenQuotesStage(c) ==
    Running(c, 7) /\ DocStage(c, 8, ParensBetweenQuotes(doc[Slot(c)]))

SplitStage(c) ==
    /\ Running(c, 8)
    /\ frags' = [frags EXCEPT ![c] = SplitOnBreaks(doc[Slot(c)])]
    /\ stage' = [stage EXCEPT ![c] = NextStage(stage[c])]
    /\ UNCHANGED <<tables, profile, given, status, doc, pending, out, unit>>

PerFragmentStage(c) ==
    /\ Running(c, 9)
    /\ frags' = [frags EXCEPT ![c] = PerFragmentProcessing(frags[c])]
    /\ stage' = [stage EXCEPT ![c] = NextStage(stage[c])]
    /\ UNCHANGED <<tables, profile, given, status, doc, pending, out, unit>>

ReverseSubstitutionStage(c) ==
    /\ Running(c, 10)
    /\ pending' = [pending EXCEPT ![c] = ReverseAndCleanup(frags[c])]
    /\ stage' = [stage EXCEPT ![c] = NextStage(stage[c])]
    /\ status' = [status EXCEPT ![c] = "ready"]
    /\ UNCHANGED <<tables, profile, given, doc, frags, out, unit>>

\* One step of the iterator: the next sentence is yielded.
Yield(c) ==
    /\ Ready(c)
    /\ pending[c] # <<>>
    /\ out' = [out EXCEPT ![c] = Append(out[c], Head(pending[c]))]
    /\ pending' = [pending EXCEPT ![c] = Tail(pending[c])]
    /\ UNCHANGED <<tables, profile, given, stage, status, doc, frags, unit>>

\* One step of the iterator when nothing is left: it is exhausted.
Exhaust(c) ==
    /\ Ready(c)
    /\ pending[c] = <<>>
    /\ status' = [status EXCEPT ![c] = "exhausted"]
    /\ UNCHANGED <<tables, profile, given, stage, doc, frags, pending, out, unit>>

Next ==
    \E c \in 1..MaxCalls :
        \/ NewlineNormalizationStage(c)
        \/ ListItemStage(c)
        \/ AbbreviationStage(c)
        \/ NumericProtectionStage(c)
        \/ ContinuousPunctuationStage(c)
        \/ NumberedReferencesStage(c)
        \/ MiscMaskingStage(c)
        \/ ParensBetweenQuotesStage(c)
        \/ SplitStage(c)
        \/ PerFragmentStage(c)
        \/ ReverseSubstitutionStage(c)
        \/ Yield(c)
        \/ Exhaust(c)

Spec == Init /\ [][Next]_vars
SpecPar == InitPar /\ [][Next]_vars

----------------------------------------------------------------------------
(* scan_lists alone, one iteration of its loop at a time *)

MaxItems == 3       \* the list items of a generated text

\* The numbers of the list items of the generated texts.
ItemNumbers == {0, 1, 2, 9}

\* The texts of n list items, each a number, the closer and a word.
RECURSIVE ItemTexts(_, _)
ItemTexts(n, closer) ==
    IF n = 0 THEN {<<>>}
    ELSE {head \o IntToString(d) \o <<closer>> \o Chars(" aa ") :
             head \in ItemTexts(n - 1, closer), d \in ItemNumbers}

\* The two calls of scan_lists in add_line_break, by the closer of the items.
ScanRegex1(closer) ==
    IF closer = "." THEN numbered_list_regex_1 ELSE numbered_list_parens_regex
ScanRegex2(closer) ==
    IF closer = "." THEN numbered_list_regex_2 ELSE numbered_list_parens_regex
ScanMark(closer) == IF closer = "." THEN ListPeriodMark ELSE ListParenMark
ScanStrip(closer) == closer = "."

\* Lists with a number written with a leading zero, with a number that comes
\* back, and with the texts of the reference test that are no markers.
ScanScenarios ==
    {<<Chars("01. aa 2. aa "), ".">>, <<Chars("1. aa 2. aa 1. aa 1.abc 333. aa "), ".">>,
     <<Chars("1) aa 2) aa 55) aa 1) aa "), ")">>, <<Chars("65) aa 666) aa 10)aa "), ")">>,
     <<Chars("1) aa 02) aa "), ")">>}

\* A call of scan_lists before the first iteration of its loop; pred is the
\* last predecessor index the test has computed, -1 before it has computed one,
\* and kept are the indices whose entry the loop has handed to the substitution.
ScanCall(text, closer) ==
    [op |-> "scan_lists", text |-> text, closer |-> closer, pred |-> -1, kept |-> {},
     st |-> ScanStart(text, ScanRegex1(closer))]

InitScan ==
    /\ InitCalls({}, {<<>>})
    /\ unit \in UNION {{ScanCall(text, closer) :
                            text \in UNION {ItemTexts(n, closer) : n \in 0..MaxItems}} :
                        closer \in {".", ")"}}
               \cup {ScanCall(sc[1], sc[2]) : sc \in ScanScenarios}

\* One iteration of the loop: the test, and the substitution where it holds.
ScanIterate ==
    /\ unit.op = "scan_lists"
    /\ unit.st.status = "loop"
    /\ \E next \in {ScanStep(unit.st, ScanRegex2(unit.closer), ScanMark(unit.closer),
                             ScanStrip(unit.closer), profile)} :
          /\ next.status # "panic"
          /\ unit' = [unit EXCEPT
                        !.st = next,
                        !.kept = IF ScanKeep(unit.st.list_array, unit.st.i)
                                 THEN unit.kept \cup {unit.st.i} ELSE unit.kept,
                        !.pred = IF ScanFirst(unit.st.list_array, unit.st.i)
                                 THEN unit.pred ELSE UsizeDec(unit.st.i)]
    /\ UNCHANGED <<tables, profile, given, stage, status, doc, frags, pending, out>>

\* The iteration in which 0 - 1 is computed where overflow is checked.
ScanOverflowPanic ==
    /\ unit.op = "scan_lists"
    /\ unit.st.status = "loop"
    /\ \E next \in {ScanStep(unit.st, ScanRegex2(unit.closer), ScanMark(unit.closer),
                             ScanStrip(unit.closer), profile)} :
          /\ next.status = "panic"
          /\ unit' = [unit EXCEPT !.st = next]
    /\ UNCHANGED <<tables, profile, given, stage, status, doc, frags, pending, out>>

NextScan == ScanIterate \/ ScanOverflowPanic

SpecScan == InitScan /\ [][NextScan]_vars

----------------------------------------------------------------------------
(* search_for_abbreviations_in_string alone, one abbreviation at a time *)

MaxTokens == 2      \* the words of a generated line

AbbrTokens ==
    <<Chars("Inc."), Chars("inc."), Chars("is"), Chars("A"), Chars("{inc}"),
      Chars("U.S."), Chars("u(s."), Chars("x"), Chars("Mr."), Chars("No."),
      Chars("5")>>

\* The lines of n words, one space between two words.
RECURSIVE AbbrLines(_)
AbbrLines(n) ==
    IF n = 1 THEN {AbbrTokens[k] : k \in 1..Len(AbbrTokens)}
    ELSE {head \o <<" ">> \o AbbrTokens[k] :
             head \in AbbrLines(n - 1), k \in 1..Len(AbbrTokens)}

\* A call before the loop over the abbreviations: cands are the abbreviations
\* the loop does not pass over, k the next of them; compiled are the texts
\* written into the patterns compiled so far.
\* before is the text the last iteration started from.
SearchCall(line) ==
    [op |-> "search", line |-> line, cands |-> Candidates(ToLower(line)), k |-> 1,
     compiled |-> {}, before |-> line, st |-> [status |-> "done", text |-> line]]

\* Lines with matches the scan skips, the line of test_character_boundary, and
\* lines in which an uppercase letter is the next-word-start character of a
\* prepositive and of a number abbreviation.
SearchScenarios ==
    {Chars("{inc} A inc. is"), Chars("{inc} A inc. is inc. is"),
     Chars("{inc} A Inc. is inc. is"),
     Chars("U.S. and NYSE") \o <<"U+2019">> \o Chars("s U.S."),
     Chars("NYSE") \o <<"U+2019">> \o Chars("s inc. is Mr. x"),
     Chars("Mr. {mr} A"), Chars("No. {no} A No. 5")}

InitSearch ==
    /\ InitCalls({}, {<<>>})
    /\ unit \in {SearchCall(line) :
                    line \in SearchScenarios \cup UNION {AbbrLines(n) : n \in 1..MaxTokens}}

\* The texts the iteration for abbr writes into patterns it compiles.
Interpolated(text, abbr) ==
    ScannedAbbrs(text, FindAll(abbr_match(abbr), text),
                 FindAll(next_word_start(abbr), text))

\* One iteration of the loop over the abbreviations.
SearchIterate ==
    /\ unit.op = "search"
    /\ unit.st.status = "done"
    /\ unit.k <= Len(unit.cands)
    /\ \E next \in {SearchOne(unit.st, ToLower(unit.line), unit.cands[unit.k])} :
          /\ next.status = "done"
          /\ unit' = [unit EXCEPT
                        !.st = next, !.k = unit.k + 1, !.before = unit.st.text,
                        !.compiled = unit.compiled
                            \cup Interpolated(unit.st.text, unit.cands[unit.k])]
    /\ UNCHANGED <<tables, profile, given, stage, status, doc, frags, pending, out>>

\* The iteration in which the compilation of a pattern fails.
SearchCompilePanic ==
    /\ unit.op = "search"
    /\ unit.st.status = "done"
    /\ unit.k <= Len(unit.cands)
    /\ \E next \in {SearchOne(unit.st, ToLower(unit.line), unit.cands[unit.k])} :
          /\ next.status = "panic"
          /\ unit' = [unit EXCEPT
                        !.st = next,
                        !.compiled = unit.compiled
                            \cup Interpolated(unit.st.text, unit.cands[unit.k])]
    /\ UNCHANGED <<tables, profile, given, stage, status, doc, frags, pending, out>>

NextSearch == SearchIterate \/ SearchCompilePanic

SpecSearch == InitSearch /\ [][NextSearch]_vars

----------------------------------------------------------------------------
(* iterate_alphabet_array alone, one index of its loop at a time *)

MaxMarkers == 3     \* the list markers of a generated text

\* The letters of the markers of the generated texts.
MarkerWords ==
    {Chars("a"), Chars("b"), Chars("c"), Chars("B"), Chars("i"), Chars("ii"),
     Chars("II")}

\* The three shapes of a marker: "a.", "a)" and "(a)".
MarkerShapes == {".", ")", "("}

Marker(word, shape) ==
    IF shape = "." THEN word \o <<".">>
    ELSE IF shape = ")" THEN word \o <<")">>
    ELSE <<"(">> \o word \o <<")">>

\* The texts of n list items, each a marker and a word.
RECURSIVE MarkerTexts(_, _)
MarkerTexts(n, shape) ==
    IF n = 0 THEN {<<>>}
    ELSE {head \o Marker(word, shape) \o Chars(" x ") :
             head \in MarkerTexts(n - 1, shape), word \in MarkerWords}

\* The list of the reference tests, in both variants.
ListOfThree(shape) ==
    Marker(Chars("a"), shape) \o Chars(" one ") \o Marker(Chars("b"), shape)
        \o Chars(" two ") \o Marker(Chars("c"), shape) \o Chars(" three")

\* Lists of roman numerals and lists that mix the shapes "a)" and "(a)".
AlphabetScenarios ==
    {<<Chars("i. x v. x x. x"), ".">>, <<Chars("x. x v. x i. x"), ".">>,
     <<Chars("a) x (a) x b) x"), ")">>, <<Chars("(a) x a) x (b) x b) x"), ")">>,
     <<Chars("ix) x x) x"), ")">>, <<Chars("xiii) x xiv) x xv) x"), ")">>}

AlphabetDetector(parens) ==
    IF parens THEN alphabetical_list_with_parens ELSE alphabetical_list_with_periods

\* A call of iterate_alphabet_array before the first index of its loop; kept
\* are the indices whose marker the loop has handed to the rewrite.
AlphabetCall(text, parens, use_roman_numeral) ==
    [op |-> "iterate_alphabet_array", text |-> text, parens |-> parens,
     roman |-> use_roman_numeral,
     list_array |-> AlphabetCandidates(FindAll(AlphabetDetector(parens), text), 1, text,
                        IF use_roman_numeral THEN roman_numerals ELSE latin_numerals),
     ind |-> 0, kept |-> {}, result |-> text]

InitAlphabet ==
    /\ InitCalls({}, {<<>>})
    /\ profile = "release"
    /\ unit \in UNION {{AlphabetCall(text, shape # ".", roman) :
                            text \in {ListOfThree(shape)}
                                     \cup UNION {MarkerTexts(n, shape) : n \in 0..MaxMarkers},
                            roman \in BOOLEAN} :
                        shape \in MarkerShapes}
               \cup {AlphabetCall(sc[1], sc[2] # ".", roman) :
                        sc \in AlphabetScenarios, roman \in BOOLEAN}

\* An index whose marker is strange: the loop continues.
AlphabetSkip ==
    /\ unit.op = "iterate_alphabet_array"
    /\ unit.ind < Len(unit.list_array)
    /\ is_strange(unit.list_array, unit.ind)
    /\ unit' = [unit EXCEPT !.ind = unit.ind + 1]
    /\ UNCHANGED <<tables, profile, given, stage, status, doc, frags, pending, out>>

\* An index whose marker is not strange: the marker is rewritten in the result.
AlphabetRewrite ==
    /\ unit.op = "iterate_alphabet_array"
    /\ unit.ind < Len(unit.list_array)
    /\ ~is_strange(unit.list_array, unit.ind)
    /\ unit' = [unit EXCEPT
                  !.ind = unit.ind + 1,
                  !.kept = unit.kept \cup {unit.ind},
                  !.result = IF unit.parens
                             THEN replace_alphabet_list_parens(
                                      unit.result, unit.list_array[unit.ind + 1][1])
                             ELSE replace_alphabet_list(
                                      unit.result, unit.list_array[unit.ind + 1][1])]
    /\ UNCHANGED <<tables, profile, given, stage, status, doc, frags, pending, out>>

NextAlphabet == AlphabetSkip \/ AlphabetRewrite

SpecAlphabet == InitAlphabet /\ [][NextAlphabet]_vars

----------------------------------------------------------------------------
(* add_line_break alone, one pass at a time *)

MaxPieces == 2      \* the pieces of a generated text

\* The pieces of the generated texts: markers of every kind, and the two
\* sentinels of the numeric passes as they may stand in an input.
Pieces ==
    <<Chars("a."), Chars("b."), Chars("i)"),
      Chars("1."), Chars("2."), Chars("1)"), Chars("2)"),
      <<"7", ListPeriodMark>>, <<"7", ListParenMark>>>>

\* The texts of n pieces, each followed by a word.
RECURSIVE PieceTexts(_)
PieceTexts(n) ==
    IF n = 0 THEN {<<>>}
    ELSE {head \o Pieces[k] \o Chars(" x ") :
             head \in PieceTexts(n - 1), k \in 1..Len(Pieces)}

\* Longer lists, of one kind and of several.
BreakScenarios ==
    {Chars("1. x 2. x 3. x "), Chars("1) x 2) x 3) x "), Chars("h) x i) x ii) x "),
     Chars("a. x b. x 1. x 2. x 1) x 2) x "),
     <<"7", ListPeriodMark>> \o Chars(" x ") \o <<"7", ListParenMark>>
         \o Chars(" x 1. x 2. x 1) x 2) x ")}

\* The pass that follows pass k, 0 for none; and the pass two after it.
PassAfterNext(k) == k + 2
PassAfter(k) == k + 1

\* A call of add_line_break before its first pass: pass is the number of the
\* last pass done, cur the text it left.
BreakCall(text) ==
    [op |-> "add_line_break", text |-> text, pass |-> 0, cur |-> text,
     status |-> "running"]

InitBreak ==
    /\ InitCalls({}, {<<>>})
    /\ unit \in {BreakCall(text) :
                    text \in BreakScenarios \cup UNION {PieceTexts(n) : n \in 0..MaxPieces}}

\* A pass that cannot fail: it leaves its text and the call goes on.
BreakPass(k, text) ==
    /\ unit.op = "add_line_break"
    /\ unit.status = "running"
    /\ PassAfter(unit.pass) = k
    /\ unit' = [unit EXCEPT !.pass = k, !.cur = text,
                            !.status = IF k >= 10 THEN "done" ELSE "running"]
    /\ UNCHANGED <<tables, profile, given, stage, status, doc, frags, pending, out>>

\* A scan: it ends the call in a panic or leaves its text.
BreakScan(k, st) ==
    \/ st.status = "done" /\ BreakPass(k, st.result)
    \/ /\ st.status = "panic"
       /\ unit.op = "add_line_break"
       /\ unit.status = "running"
       /\ PassAfter(unit.pass) = k
       /\ unit' = [unit EXCEPT !.status = "panic"]
       /\ UNCHANGED <<tables, profile, given, stage, status, doc, frags, pending, out>>

LatinPeriodsPass ==
    BreakPass(1, iterate_alphabet_array(unit.cur, alphabetical_list_with_periods,
                                        FALSE, FALSE))
LatinParensPass ==
    BreakPass(2, iterate_alphabet_array(unit.cur, alphabetical_list_with_parens,
                                        TRUE, FALSE))
RomanPeriodsPass ==
    BreakPass(3, iterate_alphabet_array(unit.cur, alphabetical_list_with_periods,
                                        FALSE, TRUE))
RomanParensPass ==
    BreakPass(4, iterate_alphabet_array(unit.cur, alphabetical_list_with_parens,
                                        TRUE, TRUE))
NumberPeriodsScan ==
    BreakScan(5, scan_lists(unit.cur, numbered_list_regex_1, numbered_list_regex_2,
                            ListPeriodMark, TRUE, profile))
NumberPeriodsBreaks ==
    BreakPass(6, add_line_breaks_for_numbered_list_with_periods(unit.cur))
NumberPeriodsSubstitute ==
    BreakPass(7, RuleReplaceAll(substitute_list_period_rule, unit.cur))
NumberParensScan ==
    BreakScan(8, scan_lists(unit.cur, numbered_list_parens_regex,
                            numbered_list_parens_regex, ListParenMark, FALSE, profile))
NumberParensBreaks ==
    BreakPass(9, add_line_breaks_for_numbered_list_with_parens(unit.cur))
NumberParensDelete ==
    BreakPass(10, RuleReplaceAll(list_marker_rule, unit.cur))

NextBreak ==
    \/ LatinPeriodsPass
    \/ LatinParensPass
    \/ RomanPeriodsPass
    \/ RomanParensPass
    \/ NumberPeriodsScan
    \/ NumberPeriodsBreaks
    \/ NumberPeriodsSubstitute
    \/ NumberParensScan
    \/ NumberParensBreaks
    \/ NumberParensDelete

SpecBreak == InitBreak /\ [][NextBreak]_vars

----------------------------------------------------------------------------
(* AbbreviationReplacer::replace alone, one step at a time *)

MaxParts == 2       \* the parts of a generated text

\* The parts of the generated texts: words that the steps of replace rewrite.
Parts ==
    <<Chars("U.S."), Chars("P.M."), Chars("a.m."), Chars("Co."), Chars("KG"),
      Chars("J."), Chars("Mr."), Chars("Ed.'s"), Chars("The"), Chars("x")>>

\* The texts of n parts, one space between two parts.
RECURSIVE PartTexts(_)
PartTexts(n) ==
    IF n = 1 THEN {Parts[k] : k \in 1..Len(Parts)}
    ELSE {head \o <<" ">> \o Parts[k] : head \in PartTexts(n - 1), k \in 1..Len(Parts)}

\* Texts as add_line_break leaves them, with the masked periods of list
\* markers, a text of two lines, and a line on which the scan aborts.
ReplaceScenarios ==
    {<<"\r", "a", MaskedPeriod>> \o Chars(" x ") \o <<"\r", "b", MaskedPeriod>>
         \o Chars(" The x"),
     <<"1", MaskedPeriod>> \o Chars(" The U.S. The x"),
     Chars("at 5 p.m. The Co. KG\rJ. x Mr. x"),
     Chars("U.S. u(s. x")}

\* The step that follows step k; and the step two after it.
StepAfterNext(k) == k + 2
StepAfter(k) == k + 1

\* A call of replace before its first step: step is the number of the last
\* step done, cur the text it left.
ReplaceCall(text) ==
    [op |-> "replace", text |-> text, step |-> 0, cur |-> text, status |-> "running"]

InitReplace ==
    /\ InitCalls({}, {<<>>})
    /\ profile = "release"
    /\ unit \in {ReplaceCall(text) :
                    text \in ReplaceScenarios \cup UNION {PartTexts(n) : n \in 1..MaxParts}}

\* A step that cannot fail: it leaves its text and the call goes on.
ReplaceStep(k, text) ==
    /\ unit.op = "replace"
    /\ unit.status = "running"
    /\ StepAfter(unit.step) = k
    /\ unit' = [unit EXCEPT !.step = k, !.cur = text,
                            !.status = IF k >= 11 THEN "done" ELSE "running"]
    /\ UNCHANGED <<tables, profile, given, stage, status, doc, frags, pending, out>>

PossessiveStep ==
    ReplaceStep(1, RuleReplaceAll(possessive_abbreviation_rule, unit.cur))
KommanditgesellschaftStep ==
    ReplaceStep(2, RuleReplaceAll(kommanditgesellschaft_rule, unit.cur))

\* The loop over the two single-letter rules, one rule a step.
SingleLetterStep ==
    \E k \in {3, 4} :
        ReplaceStep(k, RuleReplaceAll(single_letter_abbreviation_rules[k - 2], unit.cur))

\* The loop over the lines: it ends the call in a panic or leaves the lines
\* joined again.
LineScanStep ==
    \E handled \in {SearchLines(splitlines_keepends(unit.cur), 1)} :
        \/ handled.status = "done" /\ ReplaceStep(5, handled.text)
        \/ /\ handled.status = "panic"
           /\ unit.op = "replace"
           /\ unit.status = "running"
           /\ StepAfter(unit.step) = 5
           /\ unit' = [unit EXCEPT !.status = "panic"]
           /\ UNCHANGED <<tables, profile, given, stage, status, doc, frags, pending, out>>

MultiPeriodStep == ReplaceStep(6, ReplaceMultiPeriod(unit.cur))

\* The loop over the four am/pm rules, one rule a step.
AmPmStep ==
    \E k \in 7..10 : ReplaceStep(k, RuleReplaceAll(am_pm_rules[k - 6], unit.cur))

SentenceBoundaryStep ==
    ReplaceStep(11, RuleReplaceAll(replace_abbreviation_as_sentence_boundary, unit.cur))

NextReplace ==
    \/ PossessiveStep
    \/ KommanditgesellschaftStep
    \/ SingleLetterStep
    \/ LineScanStep
    \/ MultiPeriodStep
    \/ AmPmStep
    \/ SentenceBoundaryStep

SpecReplace == InitReplace /\ [][NextReplace]_vars

----------------------------------------------------------------------------
(* add_line_breaks_for_numbered_list_with_periods alone *)

MaxLineTokens == 3  \* the tokens of a generated text

\* The tokens of the generated texts and what stands between two of them.
LineTokens ==
    {<<"1", ListPeriodMark>>, <<"2", ListPeriodMark>>, Chars("aa"), Chars("x"),
     Chars("for")}
LineSeparators == {" ", "\n", "\r"}

RECURSIVE LineTexts(_)
LineTexts(n) ==
    IF n = 1 THEN LineTokens
    ELSE {head \o <<sep>> \o token :
             head \in LineTexts(n - 1), sep \in LineSeparators, token \in LineTokens}

\* The condition under which the function rewrites its text.
PeriodBreaksWanted(text) ==
    /\ Contains(text, <<ListPeriodMark>>)
    /\ ~Matches(find_numbered_list_1, text)
    /\ ~Matches(find_numbered_list_2, text)

\* A call of the function, before it has returned.
LineBreaksCall(text) ==
    [op |-> "add_line_breaks_for_numbered_list_with_periods", text |-> text,
     result |-> text, status |-> "called"]

InitLines ==
    /\ InitCalls({}, {<<>>})
    /\ profile = "release"
    /\ unit \in {LineBreaksCall(text) :
                    text \in UNION {LineTexts(n) : n \in 1..MaxLineTokens}}

\* The call returns what the two rules leave.
LineBreaksApplied ==
    /\ unit.op = "add_line_breaks_for_numbered_list_with_periods"
    /\ unit.status = "called"
    /\ PeriodBreaksWanted(unit.text)
    /\ unit' = [unit EXCEPT
                  !.result = add_line_breaks_for_numbered_list_with_periods(unit.text),
                  !.status = "owned"]
    /\ UNCHANGED <<tables, profile, given, stage, status, doc, frags, pending, out>>

\* The call returns the text it was given.
LineBreaksRefused ==
    /\ unit.op = "add_line_breaks_for_numbered_list_with_periods"
    /\ unit.status = "called"
    /\ ~PeriodBreaksWanted(unit.text)
    /\ unit' = [unit EXCEPT
                  !.result = add_line_breaks_for_numbered_list_with_periods(unit.text),
                  !.status = "borrowed"]
    /\ UNCHANGED <<tables, profile, given, stage, status, doc, frags, pending, out>>

NextLines == LineBreaksApplied \/ LineBreaksRefused

SpecLines == InitLines /\ [][NextLines]_vars

----------------------------------------------------------------------------
(* The iterator of splitlines_keepends alone, one call of next at a time *)

MaxSplitLen == 4    \* the characters of a generated input
MaxNones == 2       \* the calls of next after the first None

SplitChars == {"x", "\n", "\r", "\f"}

RECURSIVE SplitInputs(_)
SplitInputs(n) ==
    IF n = 0 THEN {<<>>}
    ELSE {head \o <<c>> : head \in SplitInputs(n - 1), c \in SplitChars}

\* PythonSplitLines::splitlines_keepends: the iterator before its first call;
\* searcher is the offset its search goes on from, lines are the items the
\* calls of next have returned and calls what each call returned.
SplitCall(input) ==
    [op |-> "splitlines_keepends", input |-> input, last_index |-> 0, searcher |-> 0,
     lines |-> <<>>, calls |-> <<>>]

InitSplit ==
    /\ InitCalls({}, {<<>>})
    /\ profile = "release"
    /\ unit \in {SplitCall(input) :
                    input \in UNION {SplitInputs(n) : n \in 0..MaxSplitLen}}

NonesOf(calls) == Cardinality({k \in 1..Len(calls) : calls[k] = "None"})

\* next when the searcher finds a line end: the line up to its end.
SplitNextLine ==
    /\ unit.op = "splitlines_keepends"
    /\ NonesOf(unit.calls) <= MaxNones
    /\ \E mat \in RangeOf(SearcherNext(unit.input, unit.searcher)) :
          unit' = [unit EXCEPT
                     !.last_index = mat[2],
                     !.searcher = mat[2],
                     !.lines = Append(unit.lines,
                                      Slice(unit.input, unit.last_index, mat[2])),
                     !.calls = Append(unit.calls, "Some")]
    /\ UNCHANGED <<tables, profile, given, stage, status, doc, frags, pending, out>>

\* next when the searcher finds nothing and a rest is left: the rest.
SplitNextRest ==
    /\ unit.op = "splitlines_keepends"
    /\ NonesOf(unit.calls) <= MaxNones
    /\ SearcherNext(unit.input, unit.searcher) = <<>>
    /\ unit.last_index < Len(unit.input)
    /\ unit' = [unit EXCEPT
                  !.last_index = Len(unit.input),
                  !.searcher = Len(unit.input),
                  !.lines = Append(unit.lines,
                                   Slice(unit.input, unit.last_index, Len(unit.input))),
                  !.calls = Append(unit.calls, "Some")]
    /\ UNCHANGED <<tables, profile, given, stage, status, doc, frags, pending, out>>

\* next when the searcher finds nothing and nothing is left: None.
SplitNextNone ==
    /\ unit.op = "splitlines_keepends"
    /\ NonesOf(unit.calls) <= MaxNones
    /\ SearcherNext(unit.input, unit.searcher) = <<>>
    /\ unit.last_index >= Len(unit.input)
    /\ unit' = [unit EXCEPT !.calls = Append(unit.calls, "None")]
    /\ UNCHANGED <<tables, profile, given, stage, status, doc, frags, pending, out>>

NextSplit == SplitNextLine \/ SplitNextRest \/ SplitNextNone

SpecSplit == InitSplit /\ [][NextSplit]_vars

----------------------------------------------------------------------------
(* python_isupper alone, one character at a time *)

MaxUpperLen == 3    \* the characters of a generated text

UpperChars == {"A", "a", "1", Hangul, TitlecaseDz}

RECURSIVE UpperInputs(_)
UpperInputs(n) ==
    IF n = 0 THEN {<<>>}
    ELSE {head \o <<c>> : head \in UpperInputs(n - 1), c \in UpperChars}

\* A call of python_isupper before the first character: pos is the number of
\* characters the loop has gone over, returned the value of the call once it
\* has returned.
UpperCall(text) ==
    [op |-> "python_isupper", text |-> text, pos |-> 0, cased |-> FALSE,
     returned |-> <<>>]

InitUpper ==
    /\ InitCalls({}, {<<>>})
    /\ profile = "release"
    /\ unit \in {UpperCall(text) : text \in UNION {UpperInputs(n) : n \in 0..MaxUpperLen}}

\* The loop is at a character of the text.
UpperAt(c) ==
    /\ unit.op = "python_isupper"
    /\ unit.returned = <<>>
    /\ unit.pos < Len(unit.text)
    /\ c = unit.text[unit.pos + 1]

\* A cased uppercase character: cased becomes true.
UpperSeen ==
    /\ \E c \in UpperChars :
          /\ UpperAt(c)
          /\ is_cased(c) /\ IsUppercase(c)
    /\ unit' = [unit EXCEPT !.pos = unit.pos + 1, !.cased = TRUE]
    /\ UNCHANGED <<tables, profile, given, stage, status, doc, frags, pending, out>>

\* A cased lowercase character: the call returns false.
LowerSeen ==
    /\ \E c \in UpperChars :
          /\ UpperAt(c)
          /\ ~(is_cased(c) /\ IsUppercase(c))
          /\ is_cased(c) /\ IsLowercase(c)
    /\ unit' = [unit EXCEPT !.pos = unit.pos + 1, !.returned = <<FALSE>>]
    /\ UNCHANGED <<tables, profile, given, stage, status, doc, frags, pending, out>>

\* Any other character: the loop goes on.
OtherSeen ==
    /\ \E c \in UpperChars :
          /\ UpperAt(c)
          /\ ~(is_cased(c) /\ IsUppercase(c))
          /\ ~(is_cased(c) /\ IsLowercase(c))
    /\ unit' = [unit EXCEPT !.pos = unit.pos + 1]
    /\ UNCHANGED <<tables, profile, given, stage, status, doc, frags, pending, out>>

\* The end of the text: the call returns cased.
UpperReturn ==
    /\ unit.op = "python_isupper"
    /\ unit.returned = <<>>
    /\ unit.pos = Len(unit.text)
    /\ unit' = [unit EXCEPT !.returned = <<unit.cased>>]
    /\ UNCHANGED <<tables, profile, given, stage, status, doc, frags, pending, out>>

NextUpper == UpperSeen \/ LowerSeen \/ OtherSeen \/ UpperReturn

SpecUpper == InitUpper /\ [][NextUpper]_vars

----------------------------------------------------------------------------
(* Properties of segment *)

\* A text without any character of the sentinel alphabet.
SentinelFree(text) == \A k \in 1..Len(text) : text[k] \notin SentinelChars

\* C1. No sentinel leakage: when the input text holds no sentinel, no
\* sentence that segment has emitted holds a character of the sentinel
\* alphabet, whatever the stages have put into the document on the way.
NoSentinelLeakage ==
    \A c \in DOMAIN given :
        SentinelFree(given[c]) => \A k \in 1..Len(out[c]) : SentinelFree(out[c][k])

\* A call whose document holds sentinels after stage 8 and whose sentences
\* have all been emitted.
NoSentinelLeakageWitness ==
    \E c \in DOMAIN given :
        /\ status[c] = "exhausted"
        /\ out[c] # <<>>
        /\ SentinelFree(given[c])
        /\ ~SentinelFree(doc[Slot(c)])

\* C2. segment of the empty text yields no sentence: the call does not
\* panic, and its iterator has nothing to yield at its first step and has
\* yielded nothing when it is exhausted.
EmptyInputYieldsNothing ==
    \A c \in DOMAIN given :
        given[c] = <<>> =>
            /\ status[c] # "panic"
            /\ pending[c] = <<>>
            /\ out[c] = <<>>

\* The iterator of a call on the empty text, exhausted.
EmptyInputWitness ==
    \E c \in DOMAIN given : given[c] = <<>> /\ status[c] = "exhausted"

\* segment as a function of the text alone, for the texts of the parallel
\* calls and the two builds.
SegmentOf == [text \in ParallelInputs, build \in Builds |-> Segment(text, build)]

\* C3. The calls that run in parallel on one Segmenter, in any interleaving,
\* yield each what segment as a function of the text alone yields (and panic
\* where it panics), and the tables of the Segmenter stay as new built them.
ParallelAsSequential ==
    /\ tables = Segmenter_new
    /\ \A c \in DOMAIN given :
          /\ status[c] = "exhausted" =>
                SegmentOf[given[c], profile] = [status |-> "done", sentences |-> out[c]]
          /\ status[c] = "ready" =>
                SegmentOf[given[c], profile]
                    = [status |-> "done", sentences |-> out[c] \o pending[c]]
          /\ status[c] = "panic" => SegmentOf[given[c], profile].status = "panic"

\* A call that has yielded all its sentences while another call, on another
\* text, is between two of its stages.
ParallelAsSequentialWitness ==
    \E c, d \in DOMAIN given :
        /\ given[c] # given[d]
        /\ status[c] = "exhausted" /\ out[c] # <<>>
        /\ status[d] = "running" /\ stage[d] \in 1..9

\* Stage k (1 to 8) as a function of the document before it.
StageOnDoc(k, text, build) ==
    CASE k = 1 -> NewlineNormalization(text)
      [] k = 2 -> add_line_break(text, build).text
      [] k = 3 -> replace(text).text
      [] k = 4 -> NumericProtection(text)
      [] k = 5 -> ContinuousPunctuation(text)
      [] k = 6 -> NumberedReferences(text)
      [] k = 7 -> MiscMasking(text)
      [] k = 8 -> ParensBetweenQuotes(text)

\* The step of call c that ends a stage ends the stage after the one the call
\* had finished, and leaves what that stage makes of the whole output of the
\* stage before it.
StageStep(c) ==
    /\ stage'[c] = stage[c] + 1
    /\ stage'[c] = 1 => doc'[Slot(c)] = StageOnDoc(1, given[c], profile)
    /\ stage'[c] \in 2..8 =>
          doc'[Slot(c)] = StageOnDoc(stage'[c], doc[Slot(c)], profile)
    /\ stage'[c] = 9 => frags'[c] = SplitOnBreaks(doc[Slot(c)])
    /\ stage'[c] = 10 => frags'[c] = PerFragmentProcessing(frags[c])
    /\ stage'[c] = 11 => pending'[c] = ReverseAndCleanup(frags[c])
    /\ stage'[c] \in 1..11

\* C4. Within a call the stages run in the listed order, from newline
\* normalization (1) to reverse substitution and cleanup (11): every step
\* that ends a stage ends the next stage of the list, on the whole output of
\* the stage before it.
StagesInOrder ==
    [][\A c \in DOMAIN given : stage'[c] # stage[c] => StageStep(c)]_vars

\* A call that has run all eleven stages and has more than one sentence.
StagesInOrderWitness ==
    \E c \in DOMAIN given : stage[c] = 11 /\ Len(frags[c]) > 1 /\ status[c] = "exhausted"

\* The characters of a text that are not white space, in order.
NonWS(text) == SelectSeq(text, LAMBDA ch : ch \notin WS)

\* A text that none of the rewritings that section 4.4 lists as its own
\* fix-ups (parenthesized roman numerals, the escaped newline) can touch.
Plain(text) == \A k \in 1..Len(text) : text[k] \notin {"(", ")", "\\"}

\* C5. Recomposition up to white space: for an input without sentinels, the
\* sentences that segment has emitted, joined in order, hold exactly the
\* characters of the input that are not white space, in the same order. It
\* is stated for the plain texts, where the claim and the sentence of the
\* specification it is taken from say the same.
RecompositionUpToWhitespace ==
    \A c \in DOMAIN given :
        status[c] = "exhausted" /\ SentinelFree(given[c]) /\ Plain(given[c]) =>
            NonWS(Flatten(out[c])) = NonWS(given[c])

\* Whether the sentence ends with the text tail.
EndsWith(sentence, tail) ==
    /\ Len(sentence) >= Len(tail)
    /\ SubSeq(sentence, Len(sentence) - Len(tail) + 1, Len(sentence)) = tail

\* The sentences of call c are split after cursor n of its text: one ends
\* with the three characters before the cursor, the next begins with the
\* character after it.
SplitAfter(c, n) ==
    \E j \in 1..(Len(out[c]) - 1) :
        /\ EndsWith(out[c][j], SubSeq(given[c], n - 2, n))
        /\ out[c][j + 1] # <<>>
        /\ out[c][j + 1][1] = given[c][n + 1]

\* A sentence-ending mark at position k of text, then a closing quotation
\* mark, one white space character and an uppercase letter.
QuoteThenCapital(text, k) ==
    /\ k >= 1 /\ k + 3 <= Len(text)
    /\ text[k] \in {".", "!", "?"}
    /\ text[k + 1] \in {"\"", "'"}
    /\ text[k + 2] \in WS
    /\ text[k + 3] \in Upper

\* The same in a text of words in which a quotation in straight double
\* quotation marks, the only two of the text, follows a word and a space, and
\* the white space after it is no line break.
QuotedWordsThenCapital(text, k) ==
    /\ QuoteThenCapital(text, k)
    /\ text[k + 1] = "\""
    /\ text[k + 2] \in {" ", "\t", "\f"}
    /\ \E q \in 3..(k - 2) :
          /\ text[q] = "\"" /\ text[q - 1] = " " /\ text[q - 2] \in Letter
          /\ text[q + 1] \in Letter /\ text[k - 1] \in Letter
          /\ \A j \in 1..Len(text) :
                j \notin {q, k, k + 1, k + 2} => text[j] \in Letter \cup {" "}

\* C6 as stated. Where a sentence-ending mark is followed by a closing
\* quotation mark, one white space character and an uppercase letter,
\* segment splits: a sentence ends with the quotation mark and that white
\* space character, and the next begins at the uppercase letter.
QuoteSplitKeepsWhitespace ==
    \A c \in DOMAIN given :
        status[c] = "exhausted" =>
            \A k \in 1..Len(given[c]) :
                QuoteThenCapital(given[c], k) => SplitAfter(c, k + 2)

\* C6 as amended. In a text of words, where a quotation in straight double
\* quotation marks that follows a word and a space ends with a mark of . ! ?
\* and its closing mark is followed by one space, tab or form feed and an
\* uppercase letter, segment splits: a sentence ends with the mark, the
\* quotation mark and that white space character, and the next begins at the
\* uppercase letter.
QuotedWordsSplitKeepsSpace ==
    \A c \in DOMAIN given :
        status[c] = "exhausted" =>
            \A k \in 1..Len(given[c]) :
                QuotedWordsThenCapital(given[c], k) => SplitAfter(c, k + 2)

\* A call on such a text, with a tab after the quotation, that has yielded
\* its two sentences.
QuotedWordsSplitWitness ==
    \E c \in DOMAIN given :
        /\ status[c] = "exhausted"
        /\ Len(out[c]) = 2
        /\ \E k \in 1..Len(given[c]) :
              QuotedWordsThenCapital(given[c], k) /\ given[c][k + 2] = "\t"

\* The abbreviations that are neither prepositive nor number abbreviations.
GeneralAbbreviations ==
    RangeOf(ABBREVIATIONS) \ (prepositive_abbreviations \cup number_abbreviations)

\* The abbreviation word of the vocabulary that ends right before position k
\* of text and follows a white space character.
WordBefore(text, k) ==
    {w \in GeneralAbbreviations :
        /\ k - Len(w) - 1 >= 1
        /\ text[k - Len(w) - 1] \in WS
        /\ ToLower(SubSeq(text, k - Len(w), k - 1)) = w}

\* Position k of text is the only period of the text; it follows a general
\* abbreviation that follows white space, and one white space character and
\* a lowercase letter follow it.
AbbreviationPeriod(text, k) ==
    /\ k >= 1 /\ k + 2 <= Len(text)
    /\ text[k] = "."
    /\ \A j \in 1..Len(text) : text[j] = "." => j = k
    /\ WordBefore(text, k) # {}
    /\ text[k + 1] \in WS
    /\ text[k + 2] \in Lower

\* The same in a text of letters, digits, spaces and braces, with a space or a
\* tab after the period, where the scan has no uppercase character as the
\* start of the word after the abbreviation (the character that follows the
\* abbreviation in braces and a space).
AbbreviationPeriodKept(text, k) ==
    /\ AbbreviationPeriod(text, k)
    /\ text[k + 1] \in {" ", "\t"}
    /\ \A j \in 1..Len(text) :
          j \notin {k, k + 1} => text[j] \in Letter \cup Digit \cup {" ", "{", "}"}
    /\ \A w \in WordBefore(text, k) :
          \A m \in RangeOf(FindAll(next_word_start(w), text)) :
              ~python_isupper(Slice(text, m[1], m[2]))

\* The text with the period at position k masked.
PeriodMasked(text, k) == [text EXCEPT ![k] = MaskedPeriod]

\* What C7 says of call c and the period at k: the abbreviation stage, replace
\* and search_for_abbreviations_in_string mask that period and change nothing
\* else, and segment emits the text as one sentence.
MaskedThenRestored(c, k) ==
    /\ status[c] # "panic"
    /\ stage[c] = 3 =>
          /\ doc[Slot(c)] = PeriodMasked(given[c], k)
          /\ replace(given[c]) = [status |-> "done", text |-> PeriodMasked(given[c], k)]
          /\ search_for_abbreviations_in_string(given[c])
                = [status |-> "done", text |-> PeriodMasked(given[c], k)]
    /\ status[c] = "exhausted" => out[c] = <<given[c]>>

BetweenWordChars(text, k) ==
    /\ k > 1 /\ k < Len(text)
    /\ text[k - 1] \in WordChar
    /\ text[k + 1] \in WordChar

\* Position k of text ends a word of the set abbrs that begins the text or
\* follows a space, and a space and a lowercase letter follow it.
EndsAbbreviation(text, k, abbrs) ==
    /\ k + 2 <= Len(text)
    /\ text[k + 1] = " "
    /\ text[k + 2] \in Lower
    /\ \E w \in abbrs :
          /\ k - Len(w) >= 1
          /\ ToLower(SubSeq(text, k - Len(w), k - 1)) = w
          /\ (k - Len(w) = 1 \/ text[k - Len(w) - 1] = " ")

\* The text has periods, and every one of them lies directly between two word
\* characters or ends an abbreviation that a lowercase word follows.
PeriodsInside(text) ==
    /\ "." \in RangeOf(text)
    /\ \A k \in 1..Len(text) :
          text[k] = "." =>
              BetweenWordChars(text, k) \/ EndsAbbreviation(text, k, RangeOf(ABBREVIATIONS))

\* The same for a text of letters, digits, spaces and periods that neither
\* begins nor ends with a space: every period lies between two letters or
\* digits, with no period two places before it, or ends an abbreviation that
\* is no number abbreviation and that a lowercase word follows.
PeriodsInsideWords(text) ==
    /\ "." \in RangeOf(text)
    /\ text[1] # " " /\ text[Len(text)] # " "
    /\ \A k \in 1..Len(text) : text[k] \in Letter \cup Digit \cup {" ", "."}
    /\ \A k \in 1..Len(text) :
          text[k] = "." =>
              \/ /\ BetweenWordChars(text, k)
                 /\ text[k - 1] # "_" /\ text[k + 1] # "_"
                 /\ (k > 2 => text[k - 2] # ".")
              \/ EndsAbbreviation(text, k, RangeOf(ABBREVIATIONS) \ number_abbreviations)

\* Call c has not panicked, and once its iterator is exhausted it has yielded
\* one sentence, the text of the call.
OneSentenceTheInput(c) ==
    /\ status[c] # "panic"
    /\ status[c] = "exhausted" => out[c] = <<given[c]>>

----------------------------------------------------------------------------
(* Properties of the two scans *)

\* The words of the abbreviation vocabulary.
AbbreviationVocabulary == RangeOf(ABBREVIATIONS)

\* C9. Every pattern that search_for_abbreviations_in_string compiles at run
\* time is well formed, the text written into it being a word of the
\* abbreviation vocabulary: the compilation never fails and the scan of a
\* line never aborts.
SearchNeverAborts ==
    unit.op = "search" =>
        /\ unit.st.status # "panic"
        /\ \A abbr \in unit.compiled :
              ToLower(abbr) \in AbbreviationVocabulary /\ ~CompileFails(abbr)

\* C10. In scan_lists the first detected number has no predecessor: the
\* predecessor index i - 1 never wraps below zero and the scan never aborts,
\* whatever the detected sequence.
ScanNeverUnderflows ==
    unit.op = "scan_lists" => unit.st.status # "panic" /\ unit.pred # UsizeMax

----------------------------------------------------------------------------
(* Properties of iterate_alphabet_array *)

\* The rank of the candidate at index j (from 0) of the call.
RankOf(j) == unit.list_array[j + 1][2]

\* The index whose rank the test compares with besides the next one: the last
\* index for the first candidate, the index before for the others.
Wrapped(i) == IF i = 0 THEN Len(unit.list_array) - 1 ELSE i - 1

\* The indices the loop has decided that are not the last of two or more.
DecidedInner ==
    {i \in 0..(unit.ind - 1) : Len(unit.list_array) >= 2 /\ i # Len(unit.list_array) - 1}

\* C11 as stated. In iterate_alphabet_array with two or more candidates, a
\* marker at an index i other than the last is rewritten if and only if
\* rank[i+1] - rank[i] is not 1 and |rank[p] - rank[i]| is not 1, p the last
\* index for i = 0 and i - 1 otherwise.
KeptIffBothDifferencesNotOne ==
    unit.op = "iterate_alphabet_array" =>
        \A i \in DecidedInner :
            i \in unit.kept <=>
                /\ RankOf(i + 1) - RankOf(i) # 1
                /\ Abs(RankOf(Wrapped(i)) - RankOf(i)) # 1

\* C11 amended. The test of the two differences is the test for skipping: a
\* marker at an index i other than the last is rewritten if and only if
\* rank[i+1] - rank[i] is 1 or |rank[p] - rank[i]| is 1.
KeptIffSomeDifferenceOne ==
    unit.op = "iterate_alphabet_array" =>
        \A i \in DecidedInner :
            i \in unit.kept <=>
                \/ RankOf(i + 1) - RankOf(i) = 1
                \/ Abs(RankOf(Wrapped(i)) - RankOf(i)) = 1

\* Three candidates or more: the first is rewritten by its difference from the
\* last alone, and a later inner one is skipped.
KeptIffSomeDifferenceOneWitness ==
    /\ unit.op = "iterate_alphabet_array"
    /\ Len(unit.list_array) >= 3
    /\ 0 \in unit.kept
    /\ RankOf(1) - RankOf(0) # 1
    /\ \E i \in DecidedInner : i \notin unit.kept

\* The candidates of the call have strictly consecutive ascending ranks.
ConsecutiveRanks ==
    /\ Len(unit.list_array) >= 2
    /\ \A j \in 0..(Len(unit.list_array) - 2) : RankOf(j + 1) = RankOf(j) + 1

\* The number of the characters c of a text.
CountOf(text, c) == Cardinality({k \in 1..Len(text) : text[k] = c})

\* The text with every candidate "<letter>." replaced by "\r<letter>" and a
\* masked period, the candidates taken where the detector finds them.
PeriodMarkersCut(text, list_array) ==
    LET ms == FindAll(alphabetical_list_with_periods, text)
        cand(k) == \E j \in 1..Len(list_array) :
                       list_array[j][1] = Slice(text, ms[k][1], ms[k][2])
    IN ReplaceMatches(text,
                      [k \in 1..Len(ms) |-> <<ms[k][1], ms[k][2] + 1>>],
                      [k \in 1..Len(ms) |->
                          IF cand(k)
                          THEN <<"\r">> \o Slice(text, ms[k][1], ms[k][2]) \o <<MaskedPeriod>>
                          ELSE Slice(text, ms[k][1], ms[k][2] + 1)])

ThreeItems ==
    <<"\r", "a", MaskedPeriod>> \o Chars(" one ") \o <<"\r", "b", MaskedPeriod>>
        \o Chars(" two ") \o <<"\r", "c", MaskedPeriod>> \o Chars(" three")

\* C12. When the candidates of a pass have strictly consecutive ascending
\* ranks, the loop rewrites every one of them, the first and the last too: the
\* result has one line break per candidate, in the period variant each
\* "<letter>." has become "\r<letter>" and a masked period, and the list
\* "a. one b. two c. three" is cut into three items.
ConsecutiveMarkersAllRewritten ==
    (/\ unit.op = "iterate_alphabet_array"
     /\ unit.ind = Len(unit.list_array)
     /\ ConsecutiveRanks) =>
        /\ unit.kept = 0..(Len(unit.list_array) - 1)
        /\ CountOf(unit.result, "\r") = Len(unit.list_array)
        /\ ~unit.parens => unit.result = PeriodMarkersCut(unit.text, unit.list_array)
        /\ (unit.text = ListOfThree(".") /\ ~unit.roman) => unit.result = ThreeItems

\* The list of three items, after the loop of the latin pass with periods.
ConsecutiveMarkersWitness ==
    /\ unit.op = "iterate_alphabet_array"
    /\ unit.text = ListOfThree(".")
    /\ ~unit.roman
    /\ ConsecutiveRanks
    /\ unit.ind = 3
    /\ unit.result = ThreeItems

\* The rank at index j differs by exactly 1 from the rank at index i.
RankNextTo(i, j) ==
    /\ j \in 0..(Len(unit.list_array) - 1)
    /\ Abs(RankOf(j) - RankOf(i)) = 1

\* C13 as stated. A marker is rewritten by reason of its own index only if its
\* rank differs by exactly 1 from the rank of the marker at index i - 1 or
\* i + 1 of the candidates.
KeptOnlyNextToNeighbour ==
    unit.op = "iterate_alphabet_array" =>
        \A i \in unit.kept : RankNextTo(i, i - 1) \/ RankNextTo(i, i + 1)

\* C13 amended. A marker is rewritten by reason of its own index only if its
\* rank differs by exactly 1 from the rank of the marker at index i - 1 or
\* i + 1 or, for the first marker, at the last index.
KeptOnlyNextToNeighbourOrLast ==
    unit.op = "iterate_alphabet_array" =>
        \A i \in unit.kept :
            \/ RankNextTo(i, i - 1)
            \/ RankNextTo(i, i + 1)
            \/ (i = 0 /\ RankNextTo(0, Len(unit.list_array) - 1))

\* Markers are rewritten and markers are skipped, a first one among the
\* rewritten and one that has no rank next to it among the skipped.
KeptOnlyNextToNeighbourWitness ==
    /\ unit.op = "iterate_alphabet_array"
    /\ unit.ind = Len(unit.list_array)
    /\ 0 \in unit.kept
    /\ \E i \in 0..(unit.ind - 1) :
          /\ i \notin unit.kept
          /\ \A j \in 0..(unit.ind - 1) : ~RankNextTo(i, j)

----------------------------------------------------------------------------
(* Properties of the numeric-list pass *)

\* The sorted sequence of the numbers of a sequence.
RECURSIVE SortedSeq(_)
SortedSeq(seq) ==
    IF seq = <<>> THEN <<>>
    ELSE LET least == Min(RangeOf(seq))
             k == CHOOSE j \in 1..Len(seq) : seq[j] = least
         IN <<least>> \o SortedSeq(SubSeq(seq, 1, k - 1) \o SubSeq(seq, k + 1, Len(seq)))

\* The entry at place k of a sequence differs by exactly 1 from an entry next
\* to it, or is a 9 next to a 0 or a 0 next to a 9.
NextToOneOff(seq, k) ==
    \E j \in {k - 1, k + 1} \cap (1..Len(seq)) :
        \/ Abs(seq[j] - seq[k]) = 1
        \/ {seq[j], seq[k]} = {0, 9}

\* C14. The entries the numeric-list pass hands to the substitution are those
\* that, in the sorted sequence of the detected numbers, differ by exactly 1
\* from a neighbouring entry or take part in a wrap between 9 and 0 with one.
KeptBySortedNeighbours ==
    (unit.op = "scan_lists" /\ unit.st.status = "done") =>
        LET sorted == SortedSeq(unit.st.list_array)
        IN \A i \in 0..(Len(unit.st.list_array) - 1) :
               i \in unit.kept <=>
                   \E k \in 1..Len(sorted) :
                       sorted[k] = unit.st.list_array[i + 1] /\ NextToOneOff(sorted, k)

----------------------------------------------------------------------------
(* Properties of search_for_abbreviations_in_string *)

\* The abbreviation of the last iteration of the call, once there is one.
LastAbbr == unit.cands[unit.k - 1]

\* The matches of an abbreviation in a line, and the indices (from 0) of those
\* whose next-word-start character is all-cased-uppercase while the
\* abbreviation is not prepositive.
MatchesOf(text, abbr) == FindAll(abbr_match(abbr), text)
UpperNotPrepositive(text, abbr) ==
    LET chars == FindAll(next_word_start(abbr), text)
        ch(i) == IF i + 1 <= Len(chars)
                 THEN Slice(text, chars[i + 1][1], chars[i + 1][2]) ELSE <<>>
    IN {i \in 0..(Len(MatchesOf(text, abbr)) - 1) :
           python_isupper(ch(i)) /\ abbr \notin prepositive_abbreviations}

\* The place in the line of the period that follows the match of index i, if a
\* period follows it.
PeriodAfter(text, abbr, i) ==
    {p \in {MatchesOf(text, abbr)[i + 1][2] + 1} : p <= Len(text) /\ text[p] = "."}

\* C15 as stated. The period that follows a skipped match of an abbreviation
\* is not replaced by the iteration of the scan for that abbreviation,
\* whatever the other matches of the abbreviation in the line are.
SkippedPeriodStays ==
    (unit.op = "search" /\ unit.k > 1) =>
        \A i \in UpperNotPrepositive(unit.before, LastAbbr) :
            \A p \in PeriodAfter(unit.before, LastAbbr, i) : unit.st.text[p] = "."

\* C15 amended. The period that follows a skipped match is replaced in the
\* iteration for its abbreviation only if the pattern built from the text of a
\* match of the abbreviation that is not skipped matches at it; when every
\* match of the abbreviation is skipped the iteration leaves the line as it is.
SkippedPeriodMaskedOnlyByScannedMatch ==
    (unit.op = "search" /\ unit.k > 1) =>
        LET abbr == LastAbbr
            ms == MatchesOf(unit.before, abbr)
            skipped == UpperNotPrepositive(unit.before, abbr)
            scanned == (0..(Len(ms) - 1)) \ skipped
        IN /\ \A i \in skipped :
                 \A p \in PeriodAfter(unit.before, abbr, i) :
                     unit.st.text[p] # "." =>
                         \E j \in scanned :
                             ByteOffset(unit.before, p - 1) \in
                                 ReplaceLocations(unit.before,
                                     {Trim(Slice(unit.before, ms[j + 1][1], ms[j + 1][2]))})
           /\ (skipped # {} /\ scanned = {}) => unit.st.text = unit.before

\* A line in which the period after a skipped match is replaced by the pattern
\* of a match that is not skipped.
SkippedPeriodMaskedWitness ==
    /\ unit.op = "search"
    /\ unit.k > 1
    /\ \E i \in UpperNotPrepositive(unit.before, LastAbbr) :
          \E p \in PeriodAfter(unit.before, LastAbbr, i) :
              unit.st.text[p] = MaskedPeriod

\* The text b is the text a with some periods masked and nothing else changed.
OnlyPeriodsMasked(a, b) ==
    /\ Len(b) = Len(a)
    /\ \A k \in 1..Len(a) : b[k] = a[k] \/ (a[k] = "." /\ b[k] = MaskedPeriod)

\* C16. The text of search_for_abbreviations_in_string is at every moment, and
\* so when it is returned, the line with some periods masked and every other
\* character as it was and where it was: each iteration rewrites only places
\* that hold a period when it rewrites them, no rewriting fails to fall on a
\* whole character, and the space prepended for matching is not in the text.
SearchMasksOnlyPeriods ==
    unit.op = "search" =>
        /\ OnlyPeriodsMasked(unit.line, unit.st.text)
        /\ OnlyPeriodsMasked(unit.before, unit.st.text)
        /\ unit.st.status = "panic" =>
               \E abbr \in Interpolated(unit.st.text, unit.cands[unit.k]) : CompileFails(abbr)

\* A returned line with a multi-byte character before two rewritten periods.
SearchMasksOnlyPeriodsWitness ==
    /\ unit.op = "search"
    /\ unit.st.status = "done"
    /\ unit.k > Len(unit.cands)
    /\ \E k1, k2, k3 \in 1..Len(unit.line) :
          /\ k1 < k2 /\ k2 < k3
          /\ ByteLenChar(unit.line[k1]) > 1
          /\ unit.line[k2] = "." /\ unit.st.text[k2] = MaskedPeriod
          /\ unit.line[k3] = "." /\ unit.st.text[k3] = MaskedPeriod

----------------------------------------------------------------------------
(* Properties of add_line_break *)

\* C17. The text that add_line_break returns holds neither the period marker
\* of the numeric pass nor its paren marker, whatever the input holds and
\* whatever the numeric passes have kept: from the substitution on no period
\* marker is left, each one of the input has become a masked period, and at
\* the end no paren marker is left.
NoListMarksReturned ==
    unit.op = "add_line_break" =>
        /\ unit.pass >= 7 =>
              /\ ListPeriodMark \notin RangeOf(unit.cur)
              /\ CountOf(unit.cur, MaskedPeriod) >= CountOf(unit.text, ListPeriodMark)
        /\ unit.status = "done" =>
              /\ unit.pass = 10
              /\ ListParenMark \notin RangeOf(unit.cur)

\* A returned text whose input held both markers, and in which the numeric
\* passes kept entries and inserted line breaks.
NoListMarksReturnedWitness ==
    /\ unit.op = "add_line_break"
    /\ unit.status = "done"
    /\ {ListPeriodMark, ListParenMark} \subseteq RangeOf(unit.text)
    /\ "\r" \in RangeOf(unit.cur)
    /\ CountOf(unit.cur, MaskedPeriod) > CountOf(unit.text, ListPeriodMark)

\* The passes of add_line_break in the order of the list: what pass k makes of
\* the whole text before it.
PassOnText(k, text, build) ==
    CASE k = 1 -> iterate_alphabet_array(text, alphabetical_list_with_periods, FALSE, FALSE)
      [] k = 2 -> iterate_alphabet_array(text, alphabetical_list_with_parens, TRUE, FALSE)
      [] k = 3 -> iterate_alphabet_array(text, alphabetical_list_with_periods, FALSE, TRUE)
      [] k = 4 -> iterate_alphabet_array(text, alphabetical_list_with_parens, TRUE, TRUE)
      [] k = 5 -> scan_lists(text, numbered_list_regex_1, numbered_list_regex_2,
                             ListPeriodMark, TRUE, build).result
      [] k = 6 -> add_line_breaks_for_numbered_list_with_periods(text)
      [] k = 7 -> RuleReplaceAll(substitute_list_period_rule, text)
      [] k = 8 -> scan_lists(text, numbered_list_parens_regex, numbered_list_parens_regex,
                             ListParenMark, FALSE, build).result
      [] k = 9 -> add_line_breaks_for_numbered_list_with_parens(text)
      [] k = 10 -> RuleReplaceAll(list_marker_rule, text)

\* The characters that stand before the masked periods of a text, in order:
\* the markers that have been rewritten as period markers.
MaskedMarkers(text) ==
    LET at == SelectSeq([k \in 1..Len(text) |-> k], LAMBDA k : text[k] = MaskedPeriod)
    IN [j \in 1..Len(at) |-> IF at[j] = 1 THEN "" ELSE text[at[j] - 1]]

\* Whether a sequence is left when entries of another are taken away.
RECURSIVE IsSubsequence(_, _)
IsSubsequence(a, b) ==
    IF a = <<>> THEN TRUE
    ELSE IF b = <<>> THEN FALSE
    ELSE IF Head(a) = Head(b) THEN IsSubsequence(Tail(a), Tail(b))
    ELSE IsSubsequence(a, Tail(b))

\* C18. add_line_break applies its passes in the order of the list (latin
\* letters with periods, with parens, roman numerals with periods, with parens,
\* numbers with periods: mark, line breaks, substitution, numbers with parens:
\* mark, line breaks, deletion), each to the whole text the pass before it
\* left, and a marker that a pass has rewritten as a period marker is left as
\* it is by every later pass.
PassesInOrder ==
    [][(unit.op = "add_line_break" /\ unit'.pass # unit.pass) =>
          /\ unit'.pass = unit.pass + 1
          /\ unit'.cur = PassOnText(unit'.pass, unit.cur, profile)
          /\ IsSubsequence(MaskedMarkers(unit.cur), MaskedMarkers(unit'.cur))
          /\ CountOf(unit'.cur, "\r") >= CountOf(unit.cur, "\r")]_vars

\* A returned text with markers of a latin pass and of both numeric passes.
PassesInOrderWitness ==
    /\ unit.op = "add_line_break"
    /\ unit.status = "done"
    /\ unit.pass = 10
    /\ unit.text = Chars("a. x b. x 1. x 2. x 1) x 2) x ")
    /\ Len(MaskedMarkers(unit.cur)) = 4
    /\ CountOf(unit.cur, "\r") >= 4

----------------------------------------------------------------------------
(* Properties of AbbreviationReplacer::replace *)

\* The steps of replace in the order of the list: what step k makes of the
\* whole text before it.
StepOnText(k, text) ==
    CASE k = 1 -> RuleReplaceAll(possessive_abbreviation_rule, text)
      [] k = 2 -> RuleReplaceAll(kommanditgesellschaft_rule, text)
      [] k \in {3, 4} -> RuleReplaceAll(single_letter_abbreviation_rules[k - 2], text)
      [] k = 5 -> SearchLines(splitlines_keepends(text), 1).text
      [] k = 6 -> ReplaceMultiPeriod(text)
      [] k \in 7..10 -> RuleReplaceAll(am_pm_rules[k - 6], text)
      [] k = 11 -> RuleReplaceAll(replace_abbreviation_as_sentence_boundary, text)

\* The places (from 1) of the masked periods that restoration step k finds in
\* a text and turns back.
RestoredBy(k, text) ==
    IF k \in 7..10
    THEN {m[1] + 1 : m \in RangeOf(FindAll(am_pm_rules[k - 6].regex, text))}
    ELSE {m[2] : m \in RangeOf(FindAll(replace_abbreviation_as_sentence_boundary.regex,
                                       text))}

\* C19. replace applies its steps in the order of the list (possessive,
\* Co. KG, the single-letter rule for the line start and the one after white
\* space, the scan of the lines, multi-period masking, the four am/pm rules,
\* the sentence-boundary rule), each to the whole text the step before it
\* left; up to the last step the text keeps its length, and a masked period
\* that a restoration step turns back stands where the text replace was called
\* with held a period: it was written by an earlier step of the call.
StepsInOrder ==
    [][(unit.op = "replace" /\ unit'.step # unit.step) =>
          /\ unit'.step = unit.step + 1
          /\ unit'.cur = StepOnText(unit'.step, unit.cur)
          /\ Len(unit.cur) = Len(unit.text)
          /\ unit'.step >= 7 =>
                \A p \in RestoredBy(unit'.step, unit.cur) :
                    /\ unit.cur[p] = MaskedPeriod
                    /\ unit.text[p] = "."]_vars

\* A returned text of two lines in which every masking step has masked a
\* period and an am/pm rule has turned one back.
StepsInOrderWitness ==
    /\ unit.op = "replace"
    /\ unit.status = "done"
    /\ unit.step = 11
    /\ unit.text = Chars("at 5 p.m. The Co. KG\rJ. x Mr. x")
    /\ unit.cur = Chars("at 5 p") \o <<MaskedPeriod>> \o Chars("m. The Co")
                     \o <<MaskedPeriod>> \o Chars(" KG\rJ") \o <<MaskedPeriod>>
                     \o Chars(" x Mr") \o <<MaskedPeriod>> \o Chars(" x")

----------------------------------------------------------------------------
(* Properties of the alphabetical passes *)

\* The text a rewritten text was made from: the line breaks taken out, the
\* masked opening paren and the masked periods put back.
RECURSIVE Unrewritten(_)
Unrewritten(text) ==
    IF text = <<>> THEN <<>>
    ELSE IF Head(text) = "\r" THEN Unrewritten(Tail(text))
    ELSE IF Len(text) >= 3 /\ SubSeq(text, 1, 3) = <<"&", InnerLParen, "&">>
         THEN <<"(">> \o Unrewritten(SubSeq(text, 4, Len(text)))
    ELSE <<IF Head(text) = MaskedPeriod THEN "." ELSE Head(text)>>
             \o Unrewritten(Tail(text))

\* The marker that stands at place k of a rewritten text: the letters that
\* follow the last of the line breaks written before it (a paren marker that
\* two candidates of one text name is rewritten once for each), after the
\* masked opening paren if there is one.
MarkerAt(text, k) ==
    LET from == IF k + 3 <= Len(text) /\ SubSeq(text, k + 1, k + 3) = <<"&", InnerLParen, "&">>
                THEN k + 4 ELSE k + 1
        upto == CHOOSE e \in (from - 1)..Len(text) :
                    /\ \A j \in from..e : text[j] \in Letter
                    /\ (e = Len(text) \/ text[e + 1] \notin Letter)
    IN SubSeq(text, from, upto)

\* C20. The alphabetical passes never rewrite an uppercase marker: every
\* candidate is, letter for letter, a lowercase key of the numeral table of
\* the pass, every rewritten occurrence has exactly the text of a candidate
\* that the loop kept, and the rest of the text is as it was.
UppercaseMarkersNeverRewritten ==
    unit.op = "iterate_alphabet_array" =>
        /\ \A j \in 1..Len(unit.list_array) :
              /\ unit.list_array[j][1] \in
                     DOMAIN (IF unit.roman THEN roman_numerals ELSE latin_numerals)
              /\ \A c \in RangeOf(unit.list_array[j][1]) : c \in Lower
        /\ \A k \in 1..(Len(unit.result) - 1) :
              (unit.result[k] = "\r" /\ unit.result[k + 1] # "\r") =>
                  \E i \in unit.kept : MarkerAt(unit.result, k) = unit.list_array[i + 1][1]
        /\ unit.result # <<>> => unit.result[Len(unit.result)] # "\r"
        /\ Unrewritten(unit.result) = unit.text

\* A text in which the detector finds an uppercase marker that is left as it
\* is while lowercase markers around it are rewritten.
UppercaseMarkersWitness ==
    /\ unit.op = "iterate_alphabet_array"
    /\ unit.ind = Len(unit.list_array)
    /\ unit.kept # {}
    /\ \E m \in RangeOf(FindAll(AlphabetDetector(unit.parens), unit.text)) :
          /\ unit.text[m[1] + 1] \in Upper
          /\ m[1] + 1 \in 2..Len(unit.result)
          /\ \E k \in 1..Len(unit.result) :
                /\ unit.result[k] \in Upper
                /\ k > 1 => unit.result[k - 1] # "\r"


----------------------------------------------------------------------------
(* Properties of the roman-numeral pass with periods *)

RomanSingles == {Chars("i"), Chars("v"), Chars("x")}

\* C21: the roman-numeral pass over period markers returns its input
\* unchanged: every candidate is one of the single letters i, v and x, no two
\* candidates have ranks that differ by 1, no index is kept and the result is
\* the input at every index of the loop.
RomanPeriodPassUnchanged ==
    (unit.op = "iterate_alphabet_array" /\ unit.roman /\ ~unit.parens)
        => /\ unit.result = unit.text
           /\ unit.kept = {}
           /\ \A i \in 1..Len(unit.list_array) :
                  /\ unit.list_array[i][1] \in RomanSingles
                  /\ \A j \in 1..Len(unit.list_array) :
                         Abs(unit.list_array[i][2] - unit.list_array[j][2]) # 1

\* The pass has gone through a text whose markers are i, v and x.
RomanPeriodPassWitness ==
    /\ unit.op = "iterate_alphabet_array" /\ unit.roman /\ ~unit.parens
    /\ unit.ind = Len(unit.list_array)
    /\ {unit.list_array[i][1] : i \in 1..Len(unit.list_array)} = RomanSingles
    /\ unit.result = unit.text


----------------------------------------------------------------------------
(* Properties of the paren variant of iterate_alphabet_array *)

\* The kept candidates whose token is t.
KeptWithToken(t) ==
    Cardinality({i \in unit.kept : unit.list_array[i + 1][1] = t})

\* The text of the call with every marker rewritten at once: "t)" gets one
\* line break for each kept candidate of token t, "(t)" becomes the line break
\* and the masked parenthesis before "t)" when a candidate of token t is kept.
RewrittenAtOnce ==
    LET ms == FindAll(extract_alphabetical_list_letters_regex, unit.text)
        Repl(mat) ==
            IF Head(mat) = "("
            THEN IF KeptWithToken(Tail(mat)) > 0
                 THEN <<"\r", "&", InnerLParen, "&">> \o Tail(mat)
                 ELSE mat
            ELSE [i \in 1..KeptWithToken(mat) |-> "\r"] \o mat
    IN ReplaceMatches(unit.text, ms,
                      [k \in 1..Len(ms) |-> Repl(Slice(unit.text, ms[k][1], ms[k][2]))])

\* C22: in the paren variant every kept candidate of token t rewrites the
\* whole text for t: when the loop ends a marker "t)" stands after as many
\* line breaks as there are kept candidates of token t, and a marker "(t)"
\* of a kept token is rewritten once, whatever the number of rewrites.
ParenMarkersRewrittenPerKept ==
    (unit.op = "iterate_alphabet_array" /\ unit.parens
     /\ unit.ind = Len(unit.list_array))
        => unit.result = RewrittenAtOnce

\* The loop has kept an "a)" and an "(a)": "a)" stands after two line breaks
\* and "(a)" after one.
ParenMarkersRewrittenWitness ==
    /\ unit.op = "iterate_alphabet_array" /\ unit.parens
    /\ unit.ind = Len(unit.list_array)
    /\ KeptWithToken(Chars("a")) = 2
    /\ Contains(unit.text, Chars("(a)"))
    /\ Contains(unit.result, <<"\r", "\r", "a", ")">>)
    /\ ~Contains(unit.result, <<"\r", "\r", "\r">>)
    /\ Contains(unit.result, <<" ", "\r", "&", InnerLParen, "&", "a", ")">>)


----------------------------------------------------------------------------
(* Properties of the roman table *)

\* The roman numerals from i to xx, in order.
RomanOrder ==
    <<Chars("i"), Chars("ii"), Chars("iii"), Chars("iv"), Chars("v"), Chars("vi"),
      Chars("vii"), Chars("viii"), Chars("ix"), Chars("x"), Chars("xi"),
      Chars("xii"), Chars("xiii"), Chars("xiv"), Chars("xv"), Chars("xvi"),
      Chars("xvii"), Chars("xviii"), Chars("xix"), Chars("xx")>>

RomanOrdinal(numeral) == CHOOSE k \in 1..Len(RomanOrder) : RomanOrder[k] = numeral

\* C23: the rank of a candidate of a roman pass is the ordinal position of its
\* numeral, counted from 0, and two candidates that follow each other in the
\* text with successive numerals have ranks that differ by exactly 1.
RomanRanksAreOrdinals ==
    (unit.op = "iterate_alphabet_array" /\ unit.roman)
        => /\ \A i \in 1..Len(unit.list_array) :
                  unit.list_array[i][2] = RomanOrdinal(unit.list_array[i][1]) - 1
           /\ \A i \in 1..(Len(unit.list_array) - 1) :
                  RomanOrdinal(unit.list_array[i + 1][1])
                          = RomanOrdinal(unit.list_array[i][1]) + 1
                      => unit.list_array[i + 1][2] - unit.list_array[i][2] = 1


----------------------------------------------------------------------------
(* Properties of the substitution of scan_lists *)

\* The values of the entries the loop has handed to the substitution.
KeptValues == {unit.st.list_array[i + 1] : i \in unit.kept}

\* The digits of a match of the substitution regex.
ScanDigits(m0) ==
    LET mat == IF ScanStrip(unit.closer) THEN Trim(m0) ELSE m0
    IN IF ByteLen(mat) = 1 THEN mat ELSE TrimMatches(mat, {".", "]", ")"})

\* The text of the call with the mark written after the digits of every match
\* of the substitution regex that Hit holds of, in place of its period if it
\* has one, and every other character left as it is.
ScanRewrittenWhere(Hit(_)) ==
    LET ms == FindAll(ScanRegex2(unit.closer), unit.text)
        Repl(m0) == IF Hit(ScanDigits(m0))
                    THEN ScanDigits(m0) \o <<ScanMark(unit.closer)>>
                    ELSE m0
    IN ReplaceMatches(unit.text, ms,
                      [k \in 1..Len(ms) |-> Repl(Slice(unit.text, ms[k][1], ms[k][2]))])

IsKeptNumber(digits) == ParseInt(digits) \in KeptValues
IsKeptNumeral(digits) == digits \in {IntToString(v) : v \in KeptValues}

\* C24 as stated: when scan_lists returns, a marker is rewritten exactly if
\* its number is the value of a kept entry, and nothing else has changed.
RewrittenByNumber ==
    (unit.op = "scan_lists" /\ unit.st.status = "done")
        => unit.st.result = ScanRewrittenWhere(IsKeptNumber)

\* C24, amended: when scan_lists returns, a match of the substitution regex is
\* rewritten exactly if its digits are the decimal numeral of the value of a
\* kept entry, wherever it stands, and nothing else has changed.
RewrittenByNumeral ==
    (unit.op = "scan_lists" /\ unit.st.status = "done")
        => unit.st.result = ScanRewrittenWhere(IsKeptNumeral)

\* The scan has returned a text in which a marker is rewritten whose own
\* entry was not kept, the value of another kept entry being the same.
RewrittenByNumeralWitness ==
    /\ unit.op = "scan_lists" /\ unit.st.status = "done"
    /\ \E i \in 0..(Len(unit.st.list_array) - 1) :
           /\ i \notin unit.kept
           /\ unit.st.list_array[i + 1] \in KeptValues
    /\ CountOf(unit.st.result, ScanMark(unit.closer)) = 3


----------------------------------------------------------------------------
(* Properties of add_line_breaks_for_numbered_list_with_periods *)

\* The places where the text returned differs from the text given.
ChangedPlaces ==
    {p \in 1..Len(unit.text) : unit.result[p] # unit.text[p]}

\* A number and the mark of a list period stand at place p of the text.
MarkerFrom(text, p) ==
    \E n \in 1..(Len(text) - p) :
        /\ \A k \in p..(p + n - 1) : text[k] \in Digit
        /\ text[p + n] = ListPeriodMark

\* The first anti-pattern as the specification gives it: two marks with a
\* line feed between them and text on both sides of the line feed.
MarksAcrossLineFeed ==
    Cat(<<C(ListPeriodMark), Plus(Dot), C("\n"), Plus(Dot), C(ListPeriodMark)>>)

\* The same with a carriage return between the marks.
MarksAcrossCarriageReturn ==
    Cat(<<C(ListPeriodMark), Plus(Dot), C("\r"), Plus(Dot), C(ListPeriodMark)>>)

ForNumberLowercase ==
    Cat(<<S("for"), ReWS, ReDigit12, C(ListPeriodMark), ReWS, ReLower>>)

\* C25 as stated: the rules are applied exactly to a text that holds the mark
\* and matches neither anti-pattern of the specification; a place that
\* changes held a whitespace character right before a marker and holds a
\* carriage return, and the place before the first marker does not change.
LineBreaksAsStated ==
    (unit.op = "add_line_breaks_for_numbered_list_with_periods"
     /\ unit.status # "called")
        => /\ Len(unit.result) = Len(unit.text)
           /\ (unit.status = "owned") <=>
                  /\ Contains(unit.text, <<ListPeriodMark>>)
                  /\ ~Matches(MarksAcrossLineFeed, unit.text)
                  /\ ~Matches(ForNumberLowercase, unit.text)
           /\ unit.status = "borrowed" => unit.result = unit.text
           /\ \A p \in ChangedPlaces :
                  /\ unit.text[p] \in WS /\ unit.result[p] = "\r"
                  /\ MarkerFrom(unit.text, p + 1)
                  /\ \E q \in 1..(p - 1) : MarkerFrom(unit.text, q)

\* C25, amended: the rules are applied exactly to a text that holds the mark
\* and matches none of the three patterns, and any other text is returned as
\* it is; a place that changes held a whitespace character after two
\* characters that are not whitespace, and before a marker or before one
\* character, optional whitespace and a marker, and holds a carriage return;
\* every whitespace character after two characters that are not whitespace
\* and before a marker of one or two digits is a carriage return in the
\* result, be the marker the first of the text or not.
LineBreaksBeforeMarkers ==
    (unit.op = "add_line_breaks_for_numbered_list_with_periods"
     /\ unit.status # "called")
        => /\ Len(unit.result) = Len(unit.text)
           /\ (unit.status = "owned") <=>
                  /\ Contains(unit.text, <<ListPeriodMark>>)
                  /\ ~Matches(MarksAcrossLineFeed, unit.text)
                  /\ ~Matches(MarksAcrossCarriageReturn, unit.text)
                  /\ ~Matches(ForNumberLowercase, unit.text)
           /\ unit.status = "borrowed" => unit.result = unit.text
           /\ \A p \in ChangedPlaces :
                  /\ unit.text[p] \in WS /\ unit.result[p] = "\r"
                  /\ p >= 3 /\ unit.text[p - 1] \notin WS /\ unit.text[p - 2] \notin WS
                  /\ \/ MarkerFrom(unit.text, p + 1)
                     \/ /\ p + 1 <= Len(unit.text) /\ unit.text[p + 1] \notin WS
                        /\ \E q \in (p + 2)..Len(unit.text) :
                               /\ \A k \in (p + 2)..(q - 1) : unit.text[k] \in WS
                               /\ MarkerFrom(unit.text, q)
           /\ unit.status = "owned" =>
                  \A p \in 3..Len(unit.text) :
                      (/\ unit.text[p] \in WS
                       /\ unit.text[p - 1] \notin WS /\ unit.text[p - 2] \notin WS
                       /\ MarkerFrom(unit.text, p + 1))
                          => unit.result[p] = "\r"

\* The call has written a line break before the first marker of the text,
\* which stands after a word.
LineBreaksBeforeMarkersWitness ==
    /\ unit.op = "add_line_breaks_for_numbered_list_with_periods"
    /\ unit.status = "owned"
    /\ \E p \in ChangedPlaces :
           /\ MarkerFrom(unit.text, p + 1)
           /\ \A q \in 1..p : ~MarkerFrom(unit.text, q)
    /\ Cardinality(ChangedPlaces) = 1
    /\ CountOf(unit.text, ListPeriodMark) = 2


----------------------------------------------------------------------------
(* Properties of replace_alphabet_list *)

\* Place p of the text opens a line or stands after a whitespace character.
AtListPosition(text, p) == p = 1 \/ text[p - 1] \in WS

\* The text from place p on, with every "<what_to_replace>." at a list
\* position replaced by a line break, the letter and a masked period.
RECURSIVE LetterMarkersCut(_, _, _)
LetterMarkersCut(text, what_to_replace, p) ==
    IF p > Len(text) THEN <<>>
    ELSE IF /\ Len(what_to_replace) = 1 /\ what_to_replace[1] \in Letter
            /\ AtListPosition(text, p)
            /\ p < Len(text) /\ text[p] = what_to_replace[1] /\ text[p + 1] = "."
         THEN <<"\r", text[p], MaskedPeriod>>
                  \o LetterMarkersCut(text, what_to_replace, p + 2)
         ELSE <<text[p]>> \o LetterMarkersCut(text, what_to_replace, p + 1)

\* C26: a step of the loop that rewrites for the letter L leaves the text
\* with every "L." at a line start or after whitespace, of exactly the letter
\* L, turned into "\rL" and a masked period, wherever it stands, and every
\* other character as it was; replace_alphabet_list applied to that text
\* with the same L returns it unchanged.
LetterRewrittenEverywhereOnce ==
    [][(unit.op = "iterate_alphabet_array" /\ ~unit.parens /\ unit'.kept # unit.kept)
          => LET L == unit.list_array[unit.ind + 1][1]
             IN /\ unit'.result = LetterMarkersCut(unit.result, L, 1)
                /\ replace_alphabet_list(unit'.result, L) = unit'.result]_vars

\* The loop has rewritten the marker of an index it did not keep, another
\* index of the same letter being kept.
LetterRewrittenEverywhereWitness ==
    /\ unit.op = "iterate_alphabet_array" /\ ~unit.parens
    /\ unit.ind = Len(unit.list_array)
    /\ \E i \in 0..(Len(unit.list_array) - 1) :
           /\ i \notin unit.kept
           /\ \E j \in unit.kept : unit.list_array[j + 1][1] = unit.list_array[i + 1][1]
    /\ CountOf(unit.result, MaskedPeriod) = 3
    /\ CountOf(unit.result, "\r") = 3


----------------------------------------------------------------------------
(* Properties of iterate_alphabet_array on a text of one marker *)

\* C27: a call of iterate_alphabet_array that finds at most one candidate
\* keeps no index and has the text it was given as its result, at every index
\* of its loop and when it returns.
LoneCandidateUnchanged ==
    (unit.op = "iterate_alphabet_array" /\ Len(unit.list_array) <= 1)
        => unit.result = unit.text /\ unit.kept = {}

\* The loop has gone over the only candidate of a text.
LoneCandidateWitness ==
    /\ unit.op = "iterate_alphabet_array"
    /\ Len(unit.list_array) = 1
    /\ unit.ind = 1
    /\ unit.result = unit.text


----------------------------------------------------------------------------
(* Properties of the choice of the masking rule *)

\* What the three masking rules look ahead for, after the period.
PrepositiveAhead == La(Alt(<<ReWS, Cat(<<C(":"), Plus(ReDigit)>>)>>))
NumberAhead == La(Alt(<<Cat(<<ReWS, ReDigit>>), Cat(<<Plus(ReWS), C("(")>>)>>))
GeneralAhead ==
    La(Alt(<<Ch({".", ":", "-", "?", ","}),
             Cat(<<ReWS, Alt(<<ReLower, Cat(<<C("I"), ReWS>>), S("I'm"), S("I'll"),
                              ReDigit, C("(")>>)>>)>>))

\* The masking rule for a match of an abbreviation of the table, chosen by the
\* abbreviation, around the matched text.
RuleChosenBy(abbreviation, matched) ==
    Cat(<<Lb(Cat(<<ReWS, AbbrPattern(matched, FALSE)>>)), C("."),
          IF abbreviation \in prepositive_abbreviations THEN PrepositiveAhead
          ELSE IF abbreviation \in number_abbreviations THEN NumberAhead
          ELSE GeneralAhead>>)

\* The next-word-start character of the match of index i (from 0), or the
\* empty text.
NextWordStartOf(text, abbr, i) ==
    LET chars == FindAll(next_word_start(abbr), text)
    IN IF i + 1 <= Len(chars) THEN Slice(text, chars[i + 1][1], chars[i + 1][2])
       ELSE <<>>

\* C28: an iteration of the scan that ends leaves the line with the periods
\* masked that are matched by the one rule of each match that is not skipped,
\* the rule being the prepositive rule for a prepositive abbreviation, else the
\* number rule for a number abbreviation, else the general rule; the skipped
\* matches are those of an abbreviation that is not prepositive whose
\* next-word-start character is uppercase.
RuleChosenByAbbreviation ==
    (unit.op = "search" /\ unit.k > 1 /\ unit.st.status = "done") =>
        LET abbr == LastAbbr
            ms == MatchesOf(unit.before, abbr)
            scanned == (0..(Len(ms) - 1)) \ UpperNotPrepositive(unit.before, abbr)
            places == UNION {{m[1] : m \in RangeOf(FindAll(
                                 RuleChosenBy(abbr,
                                     Trim(Slice(unit.before, ms[j + 1][1], ms[j + 1][2]))),
                                 <<" ">> \o unit.before))} : j \in scanned}
        IN unit.st.text = [p \in 1..Len(unit.before) |->
                              IF p \in places THEN MaskedPeriod ELSE unit.before[p]]

\* The iteration for a prepositive abbreviation has masked the period of a
\* match whose next-word-start character is uppercase.
RuleChosenByAbbreviationWitness ==
    /\ unit.op = "search" /\ unit.k > 1 /\ unit.st.status = "done"
    /\ LastAbbr \in prepositive_abbreviations
    /\ \E i \in 0..(Len(MatchesOf(unit.before, LastAbbr)) - 1) :
           /\ python_isupper(NextWordStartOf(unit.before, LastAbbr, i))
           /\ \E p \in PeriodAfter(unit.before, LastAbbr, i) :
                  unit.st.text[p] = MaskedPeriod


----------------------------------------------------------------------------
(* Properties of the iterator of splitlines_keepends *)

\* The line is a text without a line end followed by one line end.
OneLineEndAtEnd(line) ==
    \E n \in {1, 2} :
        /\ Len(line) >= n
        /\ \A k \in 1..(Len(line) - n) : line[k] \notin NewlineChars
        /\ IF n = 2 THEN SubSeq(line, Len(line) - 1, Len(line)) = <<"\r", "\n">>
           ELSE line[Len(line)] \in NewlineChars

\* C29: the lines the iterator has returned are, in order, the input up to
\* last_index, and the whole input once it has returned None; every line is
\* not empty and ends with its only line end, but for a last line without one
\* that ends the input; no line ends with the "\r" of a "\r\n"; after a None
\* every call returns None; and the lines are those the scan of replace goes
\* through.
SplitLinesRebuildInput ==
    unit.op = "splitlines_keepends" =>
        /\ Flatten(unit.lines) = Slice(unit.input, 0, unit.last_index)
        /\ (unit.calls # <<>> /\ unit.calls[Len(unit.calls)] = "None")
               => /\ Flatten(unit.lines) = unit.input
                  /\ unit.lines = splitlines_keepends(unit.input)
        /\ \A i \in 1..Len(unit.lines) :
               /\ unit.lines[i] # <<>>
               /\ \/ OneLineEndAtEnd(unit.lines[i])
                  \/ /\ i = Len(unit.lines)
                     /\ unit.last_index = Len(unit.input)
                     /\ \A k \in 1..Len(unit.lines[i]) :
                            unit.lines[i][k] \notin NewlineChars
               /\ (i < Len(unit.lines) /\ unit.lines[i][Len(unit.lines[i])] = "\r")
                      => Head(unit.lines[i + 1]) # "\n"
        /\ \A i \in 1..Len(unit.calls) : \A j \in i..Len(unit.calls) :
               unit.calls[i] = "None" => unit.calls[j] = "None"

\* The iterator has returned a line that ends with "\r\n", a last line
\* without a line end, and None twice.
SplitLinesWitness ==
    /\ unit.op = "splitlines_keepends"
    /\ NonesOf(unit.calls) = 2
    /\ Len(unit.lines) = 2
    /\ unit.lines[1] = <<"x", "\r", "\n">>
    /\ unit.lines[2] = <<"x">>


----------------------------------------------------------------------------
(* Properties of python_isupper *)

\* C30: the call returns true exactly if the text has a cased character and
\* every cased character of it is uppercase; a cased character that is not
\* uppercase, lowercase or titlecase, makes it false, and the characters that
\* are not cased do not count.
UpperIffAllCasedUppercase ==
    (unit.op = "python_isupper" /\ unit.returned # <<>>)
        => unit.returned[1] =
               (/\ \E k \in 1..Len(unit.text) : is_cased(unit.text[k])
                /\ \A k \in 1..Len(unit.text) :
                       is_cased(unit.text[k]) => IsUppercase(unit.text[k]))

=============================================================================
